---- MODULE Spec2Model ----
(***************************************************************************)
(* Model of the LLM proxy's streaming tool-call transformer                *)
(* (app/streaming_tool_transformer.py) and of the streaming relay and      *)
(* response aggregator that drive it (app/proxy.py).                       *)
(*                                                                         *)
(* Text is a sequence of one-character strings, so that chunk boundaries   *)
(* can fall inside a marker token, a header or a JSON string.  Python's    *)
(* None is the one-element sequence None, a missing dict key is Absent.    *)
(***************************************************************************)
EXTENDS Integers, Sequences, FiniteSets, TLC

\* ------------------------------------------------------------------------
\* Characters and text helpers
\* ------------------------------------------------------------------------

None == <<"None">>
Absent == <<"Absent">>

\* `not x` for an optional text: None, a missing key and "" are all falsy.
Falsy(x) == x = None \/ x = Absent \/ x = <<>>

\* `x or ""`
OrEmpty(x) == IF Falsy(x) THEN <<>> ELSE x

\* One representative code point of each range of control_pattern.
ControlChars == {"U+0F00", "U+1800"}

\* Characters removed by str.strip() that occur in the modelled texts.
Whitespace == {" ", "\n", "\t", "\r"}

Digits == {"0", "1", "2", "3", "4", "5", "6", "7", "8", "9"}

Letters == {"a", "b", "c", "d", "e", "f", "g", "h", "i", "j", "k", "l", "m",
            "n", "o", "p", "q", "r", "s", "t", "u", "v", "w", "x", "y", "z",
            "A", "B", "C", "D", "E", "F", "I", "L", "M", "N", "T"}

\* \w of the header pattern
WordChars == Letters \cup Digits \cup {"_"}

\* The least element of a non-empty set of integers
Min(S) == CHOOSE i \in S : \A j \in S : i <= j

\* text[i:] with a 1-based index
From(text, i) == SubSeq(text, i, Len(text))

\* text.startswith(pat, i-1)
StartsAt(text, i, pat) ==
    /\ i >= 1
    /\ i + Len(pat) - 1 <= Len(text)
    /\ SubSeq(text, i, i + Len(pat) - 1) = pat

\* text.find(pat) + 1: the 1-based index of the first occurrence, 0 if none
Find(text, pat) ==
    LET hits == {i \in 1..Len(text) : StartsAt(text, i, pat)}
    IN IF hits = {} THEN 0 ELSE Min(hits)

\* pat in text
Contains(text, pat) == Find(text, pat) # 0

\* text.replace(pat, "") from index i on: non-overlapping occurrences, left
\* to right; each step copies the text up to the next occurrence.
RECURSIVE ReplaceFrom(_, _, _)
ReplaceFrom(text, pat, i) ==
    LET hits == {j \in i..Len(text) : StartsAt(text, j, pat)}
    IN IF hits = {} THEN SubSeq(text, i, Len(text))
       ELSE SubSeq(text, i, Min(hits) - 1) \o ReplaceFrom(text, pat, Min(hits) + Len(pat))

Replace(text, pat) == ReplaceFrom(text, pat, 1)

\* text.strip()
Strip(text) ==
    LET keep == {i \in 1..Len(text) : text[i] \notin Whitespace}
    IN IF keep = {} THEN <<>>
       ELSE SubSeq(text,
                   CHOOSE i \in keep : \A j \in keep : i <= j,
                   CHOOSE i \in keep : \A j \in keep : i >= j)

\* The end (exclusive) of the longest run of characters of set cs from i on
RunEnd(text, i, cs) ==
    LET stops == {j \in i..Len(text) : text[j] \notin cs}
    IN IF stops = {} THEN IF i > Len(text) THEN i ELSE Len(text) + 1 ELSE Min(stops)

\* ------------------------------------------------------------------------
\* Marker Scanner
\* ------------------------------------------------------------------------

SectionBegin == <<"<","|","t","o","o","l","_","c","a","l","l","s","_","s","e","c","t","i","o","n","_","b","e","g","i","n","|",">">>
CallBegin == <<"<","|","t","o","o","l","_","c","a","l","l","_","b","e","g","i","n","|",">">>
ArgumentBegin == <<"<","|","t","o","o","l","_","c","a","l","l","_","a","r","g","u","m","e","n","t","_","b","e","g","i","n","|",">">>
CallEnd == <<"<","|","t","o","o","l","_","c","a","l","l","_","e","n","d","|",">">>
SectionEnd == <<"<","|","t","o","o","l","_","c","a","l","l","s","_","s","e","c","t","i","o","n","_","e","n","d","|",">">>
FunctionsDot == <<"f","u","n","c","t","i","o","n","s",".">>

\* The five bracket tokens, in the order both marker_pattern and
\* _strip_argument_markers list them.
Markers == <<SectionBegin, CallBegin, ArgumentBegin, CallEnd, SectionEnd>>

\* control_pattern.search(text)
control_pattern_search(text) == \E i \in 1..Len(text) : text[i] \in ControlChars

\* control_pattern.sub("", text)
control_pattern_sub(text) == SelectSeq(text, LAMBDA c : c \notin ControlChars)

\* The alternative of marker_pattern that matches at i (0 if none); the
\* alternation tries them in order.
MarkerAt(text, i) ==
    LET hits == {k \in 1..Len(Markers) : StartsAt(text, i, Markers[k])}
    IN IF hits = {} THEN 0 ELSE Min(hits)

\* marker_pattern.search(text)
marker_pattern_search(text) == \E i \in 1..Len(text) : MarkerAt(text, i) # 0

\* marker_pattern.sub("", text) from index i on: one left-to-right pass;
\* each step copies the text up to the next match.
RECURSIVE MarkerSubFrom(_, _)
MarkerSubFrom(text, i) ==
    LET hits == {j \in i..Len(text) : MarkerAt(text, j) # 0}
    IN IF hits = {} THEN SubSeq(text, i, Len(text))
       ELSE SubSeq(text, i, Min(hits) - 1)
            \o MarkerSubFrom(text, Min(hits) + Len(Markers[MarkerAt(text, Min(hits))]))

marker_pattern_sub(text) == MarkerSubFrom(text, 1)

\* Mutant: has_marker reports that anything at all was removed, blanks
\* included.
StripMarkersAndDetect_AnythingRemoved(text) ==
    IF text = <<>> THEN [cleaned |-> <<>>, has_marker |-> FALSE]
    ELSE LET cleaned == Strip(marker_pattern_sub(control_pattern_sub(text)))
         IN [cleaned |-> cleaned, has_marker |-> cleaned # text]

\* _strip_markers_and_detect(text), always called with strip_whitespace=True
StripMarkersAndDetect(text) ==
    IF text = <<>> THEN [cleaned |-> <<>>, has_marker |-> FALSE]
    ELSE LET no_control == control_pattern_sub(text)
         IN [cleaned |-> Strip(marker_pattern_sub(no_control)),
             has_marker |-> control_pattern_search(text)
                            \/ marker_pattern_search(no_control)]

\* _strip_argument_markers(text): one str.replace per token, in order
RECURSIVE ReplaceAll(_, _)
ReplaceAll(text, k) ==
    IF k > Len(Markers) THEN text ELSE ReplaceAll(Replace(text, Markers[k]), k + 1)

StripArgumentMarkers(text) == IF text = <<>> THEN <<>> ELSE ReplaceAll(text, 1)

\* function_pattern.match at one start position: functions\.(\w+):(\d+).
\* \w+ is greedy and ":" is no word character, so the name is the whole
\* word run and must be followed by ":" and at least one digit.
FunctionMatchAt(text, i) ==
    LET nameStart == i + Len(FunctionsDot)
        nameEnd == RunEnd(text, nameStart, WordChars)
        idStart == nameEnd + 1
        idEnd == RunEnd(text, idStart, Digits)
    IN IF /\ StartsAt(text, i, FunctionsDot)
          /\ nameEnd > nameStart
          /\ nameEnd <= Len(text)
          /\ text[nameEnd] = ":"
          /\ idEnd > idStart
       THEN [found |-> TRUE,
             name |-> SubSeq(text, nameStart, nameEnd - 1),
             id |-> SubSeq(text, idStart, idEnd - 1),
             end |-> idEnd]
       ELSE [found |-> FALSE, name |-> <<>>, id |-> <<>>, end |-> 0]

\* function_pattern.search(text): the leftmost match; end is the 1-based
\* index of the first character after it.
function_pattern_search(text) ==
    LET hits == {i \in 1..Len(text) : FunctionMatchAt(text, i).found}
    IN IF hits = {} THEN FunctionMatchAt(text, 0)
       ELSE FunctionMatchAt(text, Min(hits))

\* _looks_like_tool_start(text)
LooksLikeToolStart(text) ==
    IF text = <<>> THEN FALSE
    ELSE Contains(text, FunctionsDot) \/ function_pattern_search(text).found

\* ------------------------------------------------------------------------
\* json.loads, as far as it decides whether a candidate text is valid JSON
\* ------------------------------------------------------------------------

JsonWhitespace == {" ", "\t", "\n", "\r"}
JsonEscapes == {"\"", "\\", "/", "b", "f", "n", "r", "t"}
HexDigits == Digits \cup {"a", "b", "c", "d", "e", "f", "A", "B", "C", "D", "E", "F"}
JsonLiterals == {<<"t","r","u","e">>, <<"f","a","l","s","e">>, <<"n","u","l","l">>,
                 <<"N","a","N">>, <<"I","n","f","i","n","i","t","y">>,
                 <<"-","I","n","f","i","n","i","t","y">>}

\* Every parser below takes the text and a 1-based start index and returns
\* the index of the first character after the parsed item, or 0 on failure.

SkipWs(text, i) == RunEnd(text, i, JsonWhitespace)

\* The body of a string from index i on (after the opening quote): plain
\* characters up to the next quote, backslash or raw control character, which
\* ends the string, starts an escape or is rejected (strict mode).
RECURSIVE JsonStringBody(_, _)
JsonStringBody(text, i) ==
    LET stops == {j \in i..Len(text) : text[j] \in {"\"", "\\", "\n", "\t", "\r"}}
        k == Min(stops)
    IN IF stops = {} THEN 0
       ELSE IF text[k] = "\"" THEN k + 1
       ELSE IF text[k] = "\\"
            THEN IF k + 1 > Len(text) THEN 0
                 ELSE IF text[k + 1] \in JsonEscapes THEN JsonStringBody(text, k + 2)
                 ELSE IF /\ text[k + 1] = "u"
                         /\ k + 5 <= Len(text)
                         /\ \A h \in (k + 2)..(k + 5) : text[h] \in HexDigits
                      THEN JsonStringBody(text, k + 6)
                 ELSE 0
       ELSE 0

JsonString(text, i) ==
    IF i <= Len(text) /\ text[i] = "\"" THEN JsonStringBody(text, i + 1) ELSE 0

\* A run of at least one digit from i on, ending at the returned index; i
\* itself if there is none
DigitsEnd(text, i) == RunEnd(text, i, Digits)

\* ([eE][-+]?\d+)? from index i on
JsonExponentDigits(text, i, expDigits) ==
    IF DigitsEnd(text, expDigits) > expDigits THEN DigitsEnd(text, expDigits) ELSE i

JsonExponent(text, i) ==
    IF i = 0 THEN 0
    ELSE IF i <= Len(text) /\ text[i] \in {"e", "E"}
    THEN JsonExponentDigits(text, i,
             IF i + 1 <= Len(text) /\ text[i + 1] \in {"+", "-"} THEN i + 2 ELSE i + 1)
    ELSE i

\* (\.\d+)? from index i on
JsonFraction(text, i) ==
    IF i = 0 THEN 0
    ELSE IF i <= Len(text) /\ text[i] = "." /\ DigitsEnd(text, i + 1) > i + 1
    THEN DigitsEnd(text, i + 1)
    ELSE i

\* (0|[1-9]\d*) from index i on
JsonInteger(text, i) ==
    IF i <= Len(text) /\ text[i] = "0" THEN i + 1
    ELSE IF DigitsEnd(text, i) > i THEN DigitsEnd(text, i)
    ELSE 0

\* (-?(?:0|[1-9]\d*))(\.\d+)?([eE][-+]?\d+)?
JsonNumber(text, i) ==
    JsonExponent(text,
        JsonFraction(text,
            JsonInteger(text, IF i <= Len(text) /\ text[i] = "-" THEN i + 1 ELSE i)))

JsonLiteral(text, i) ==
    LET hits == {l \in JsonLiterals : StartsAt(text, i, l)}
    IN IF hits = {} THEN 0 ELSE i + Len(CHOOSE l \in hits : TRUE)

RECURSIVE JsonValue(_, _)
RECURSIVE JsonMembers(_, _)
RECURSIVE JsonElements(_, _)

\* Whitespace after an item that ended at i; a failure (0) is passed on
SkipWsAfter(text, i) == IF i = 0 THEN 0 ELSE SkipWs(text, i)

\* The ":" expected at index colon, and the value after it
JsonColonValue(text, colon) ==
    IF colon = 0 \/ colon > Len(text) \/ text[colon] # ":" THEN 0
    ELSE JsonValue(text, SkipWs(text, colon + 1))

\* After a member: "}" ends the object, "," announces another member
JsonMembersNext(text, next) ==
    IF next = 0 \/ next > Len(text) THEN 0
    ELSE IF text[next] = "}" THEN next + 1
    ELSE IF text[next] = "," THEN JsonMembers(text, SkipWs(text, next + 1))
    ELSE 0

\* The members of an object, i being the index of the next key's quote
JsonMembers(text, i) ==
    JsonMembersNext(text,
        SkipWsAfter(text,
            JsonColonValue(text, SkipWsAfter(text, JsonString(text, i)))))

\* After an element: "]" ends the array, "," announces another element
JsonElementsNext(text, next) ==
    IF next = 0 \/ next > Len(text) THEN 0
    ELSE IF text[next] = "]" THEN next + 1
    ELSE IF text[next] = "," THEN JsonElements(text, SkipWs(text, next + 1))
    ELSE 0

\* The elements of an array, i being the index of the next value
JsonElements(text, i) == JsonElementsNext(text, SkipWsAfter(text, JsonValue(text, i)))

\* An object or an array whose opening bracket is before index j
JsonObjectFrom(text, j) ==
    IF j <= Len(text) /\ text[j] = "}" THEN j + 1 ELSE JsonMembers(text, j)

JsonArrayFrom(text, j) ==
    IF j <= Len(text) /\ text[j] = "]" THEN j + 1 ELSE JsonElements(text, j)

\* A literal if one starts at i, a number otherwise
JsonLiteralOrNumber(text, i, literalEnd) ==
    IF literalEnd # 0 THEN literalEnd ELSE JsonNumber(text, i)

JsonValue(text, i) ==
    IF i > Len(text) THEN 0
    ELSE IF text[i] = "\"" THEN JsonString(text, i)
    ELSE IF text[i] = "{" THEN JsonObjectFrom(text, SkipWs(text, i + 1))
    ELSE IF text[i] = "[" THEN JsonArrayFrom(text, SkipWs(text, i + 1))
    ELSE JsonLiteralOrNumber(text, i, JsonLiteral(text, i))

\* The value ended at valEnd and only whitespace follows
JsonEndsAt(text, valEnd) == valEnd # 0 /\ SkipWs(text, valEnd) = Len(text) + 1

\* json.loads(text) does not raise JSONDecodeError: one value, surrounded
\* by optional whitespace, and nothing after it.
JsonLoadsOk(text) == JsonEndsAt(text, JsonValue(text, SkipWs(text, 1)))

\* ------------------------------------------------------------------------
\* Chunks
\* ------------------------------------------------------------------------

\* A parsed chunk.  n stands for the fields the transformer copies and never
\* looks at (id, created, model, ...): it tells the fed chunks apart.  shape
\* says how far the value follows the chunk schema ("delta_null": an object
\* whose choices[0] has the key delta with the value null).  delta and finish_reason
\* are those of choices[0].  tool_calls is tagged "absent" (no such key),
\* "none" (null) or "list".
ChunkShapes == {"valid", "not_object", "no_choices", "empty_choices",
                "first_not_object", "no_delta", "delta_null"}

NullToolCalls == [tag |-> "none", calls |-> <<>>]
AbsentToolCalls == [tag |-> "absent", calls |-> <<>>]

EmptyDelta == [role |-> Absent, content |-> Absent,
               reasoning_content |-> Absent, tool_calls |-> AbsentToolCalls]

\* A chunk as the upstream server sends it
UpstreamChunk(n, reasoning, content, finish) ==
    [n |-> n, shape |-> "valid",
     delta |-> [role |-> None, content |-> content,
                reasoning_content |-> reasoning, tool_calls |-> NullToolCalls],
     finish_reason |-> finish]

\* A value that fails the validity gate
InvalidChunk(n, shape) ==
    [n |-> n, shape |-> shape, delta |-> EmptyDelta, finish_reason |-> Absent]

\* _is_valid_chunk(chunk)
IsValidChunk(chunk) ==
    IF chunk.shape = "not_object" THEN FALSE
    ELSE IF chunk.shape \in {"no_choices", "empty_choices"} THEN FALSE
    ELSE IF chunk.shape = "first_not_object" THEN FALSE
    ELSE IF chunk.shape = "no_delta" THEN FALSE
    ELSE TRUE

\* "functions.<name>:<id>"
ToolCallId(tool_name, tool_id) == FunctionsDot \o tool_name \o <<":">> \o tool_id

\* The delta both synthetic chunks carry
ToolCallDelta(tool_name, tool_id, name, arguments) ==
    [role |-> None, content |-> None, reasoning_content |-> None,
     tool_calls |-> [tag |-> "list",
                     calls |-> <<[id |-> ToolCallId(tool_name, tool_id),
                                  index |-> 0,
                                  type |-> "function",
                                  function |-> [name |-> name,
                                                arguments |-> arguments]]>>]]

\* _create_tool_call_start_chunk(tool_name, tool_id, original_chunk)
CreateToolCallStartChunk(tool_name, tool_id, original_chunk) ==
    [original_chunk EXCEPT !.delta = ToolCallDelta(tool_name, tool_id, tool_name, <<>>)]

\* The argument chunk built inside _emit_argument_delta
ArgumentChunk(tool_name, tool_id, cleaned_args, original_chunk) ==
    [original_chunk EXCEPT !.delta = ToolCallDelta(tool_name, tool_id, None, cleaned_args)]

\* _clone_chunk_with_reasoning(original_chunk, reasoning)
CloneChunkWithReasoning(original_chunk, reasoning) ==
    [original_chunk EXCEPT
        !.delta.reasoning_content = reasoning,
        !.delta.tool_calls = IF @.tag = "absent" THEN @ ELSE NullToolCalls]

\* ------------------------------------------------------------------------
\* Tool-call transformer: one record t = [state, builder, pending_chunks]
\* ------------------------------------------------------------------------

\* ToolCallBuilder() and ToolCallBuilder.reset()
NewBuilder ==
    [buffer |-> <<>>, tool_name |-> <<>>, tool_id |-> <<>>,
     arguments_buffer |-> <<>>,
     brace_depth |-> 0, in_string |-> FALSE, string_char |-> "None",
     escaped |-> FALSE]

\* StreamingToolCallTransformer.__init__
NewTransformer == [state |-> "IDLE", builder |-> NewBuilder, pending_chunks |-> <<>>]

\* Mutant: the reset forgets to empty the pending queue.
ResetState_KeepsPending(t) ==
    [state |-> "IDLE", builder |-> NewBuilder, pending_chunks |-> t.pending_chunks]

\* Mutant: the builder's reset forgets the tracker fields.
ResetState_KeepsTracker(t) ==
    [state |-> "IDLE",
     builder |-> [t.builder EXCEPT !.buffer = <<>>, !.tool_name = <<>>,
                                   !.tool_id = <<>>, !.arguments_buffer = <<>>],
     pending_chunks |-> <<>>]

\* Mutant: the builder's reset forgets the header buffer.
ResetState_KeepsHeader(t) ==
    [state |-> "IDLE",
     builder |-> [NewBuilder EXCEPT !.buffer = t.builder.buffer],
     pending_chunks |-> <<>>]

\* _reset_state()
ResetState(t) == [state |-> "IDLE", builder |-> NewBuilder, pending_chunks |-> <<>>]

\* One iteration of the loop of _try_parse_json, on character i of text.
\* b is the builder, whose tracker fields the loop reads and writes;
\* complete says that the iteration returned True.
TrackerStep(b, text, i) ==
    LET ch == text[i] IN
    IF b.in_string
    THEN IF b.escaped
         THEN [builder |-> [b EXCEPT !.escaped = FALSE], complete |-> FALSE]
         ELSE IF ch = "\\"
         THEN [builder |-> [b EXCEPT !.escaped = TRUE], complete |-> FALSE]
         ELSE IF ch = b.string_char
         THEN [builder |-> [b EXCEPT !.in_string = FALSE, !.string_char = "None"],
               complete |-> FALSE]
         ELSE [builder |-> b, complete |-> FALSE]
    ELSE IF ch \in {"\"", "'"}
         THEN [builder |-> [b EXCEPT !.in_string = TRUE, !.string_char = ch],
               complete |-> FALSE]
         ELSE IF ch = "{"
         THEN [builder |-> [b EXCEPT !.brace_depth = IF @ = 0 THEN 1 ELSE @ + 1],
               complete |-> FALSE]
         ELSE IF ch = "}" /\ b.brace_depth > 0
         THEN LET b1 == [b EXCEPT !.brace_depth = @ - 1]
              IN [builder |-> b1,
                  complete |-> b1.brace_depth = 0 /\ JsonLoadsOk(SubSeq(text, 1, i))]
         ELSE [builder |-> b, complete |-> FALSE]

\* The loop of _try_parse_json over characters lo..hi of text, in order,
\* stopping at the first iteration that returns True.  (The range is halved
\* only to keep the evaluation shallow; the characters are visited left to
\* right, each once.)
RECURSIVE TrackerLoop(_, _, _, _)
TrackerLoop(b, text, lo, hi) ==
    IF lo = hi THEN TrackerStep(b, text, lo)
    ELSE LET mid == (lo + hi) \div 2
             left == TrackerLoop(b, text, lo, mid)
         IN IF left.complete THEN left
            ELSE TrackerLoop(left.builder, text, mid + 1, hi)

\* _try_parse_json(text)
TryParseJson(b, text) ==
    IF text = <<>> THEN [builder |-> b, complete |-> FALSE]
    ELSE TrackerLoop(b, text, 1, Len(text))

\* The text _emit_argument_delta hands to the tracker: the whole
\* arguments_buffer collected so far.
TrackerInput(arguments_buffer, cleaned_args) == arguments_buffer

\* Mutant: only the section end marker is looked for.
HasEndMarker_SectionOnly(raw_text) == Contains(raw_text, SectionEnd)

\* The end-marker test of _emit_argument_delta, on the raw text
HasEndMarker(raw_text) == Contains(raw_text, CallEnd) \/ Contains(raw_text, SectionEnd)

\* What a handler returns: the transformer afterwards, the chunks yielded,
\* whether the header matched in this call, and the text handed to
\* _emit_argument_delta (raw) with the tracker's verdict on it.  raised
\* says that the call ended in an exception instead of returning.
Result(t, out, header, raw, complete) ==
    [t |-> t, out |-> out, header |-> header, raw |-> raw, complete |-> complete,
     raised |-> FALSE]

\* A call that raises AttributeError before it has yielded or changed anything
Raised(t) == [Result(t, <<>>, FALSE, <<>>, FALSE) EXCEPT !.raised = TRUE]

\* The end-marker test that ends _emit_argument_delta
EmitEndMarker(t, raw_text, out, complete) ==
    Result(IF HasEndMarker(raw_text) THEN ResetState(t) ELSE t,
           out, FALSE, raw_text, complete)

\* _emit_argument_delta once the tracker has run: parsed is its verdict and
\* the builder it leaves.
EmitTracked(t1, raw_text, new_chunk, parsed) ==
    IF parsed.complete /\ t1.state = "ARGUMENT_BUILD"
    THEN Result(ResetState([t1 EXCEPT !.builder = parsed.builder]),
                <<new_chunk>>, FALSE, raw_text, TRUE)
    ELSE EmitEndMarker([t1 EXCEPT !.builder = parsed.builder],
                       raw_text, <<new_chunk>>, parsed.complete)

\* _emit_argument_delta once the markers are stripped
EmitCleaned(t, raw_text, original_chunk, cleaned_args) ==
    IF cleaned_args # <<>>
    THEN EmitTracked([t EXCEPT !.builder.arguments_buffer = @ \o cleaned_args],
                     raw_text,
                     ArgumentChunk(t.builder.tool_name, t.builder.tool_id,
                                   cleaned_args, original_chunk),
                     TryParseJson([t.builder EXCEPT !.arguments_buffer = @ \o cleaned_args],
                                  TrackerInput(t.builder.arguments_buffer \o cleaned_args,
                                               cleaned_args)))
    ELSE EmitEndMarker(t, raw_text, <<>>, FALSE)

\* _emit_argument_delta(raw_text, original_chunk).  raw is the text handed
\* in and complete is what the tracker reported in this call.
EmitArgumentDelta(t, raw_text, original_chunk) ==
    IF raw_text = <<>> THEN Result(t, <<>>, FALSE, <<>>, FALSE)
    ELSE EmitCleaned(t, raw_text, original_chunk, StripArgumentMarkers(raw_text))

\* Mutant: the matched header stays in the header buffer.
FinishMatchedHeader_KeepsBuffer(t, chunk_from, match) ==
    [EmitArgumentDelta([t EXCEPT !.builder.tool_name = match.name,
                                 !.builder.tool_id = match.id,
                                 !.state = "ARGUMENT_BUILD"],
                       From(t.builder.buffer, match.end),
                       chunk_from)
        EXCEPT !.out = <<CreateToolCallStartChunk(match.name, match.id, chunk_from)>> \o @,
               !.header = TRUE,
               !.raw = From(t.builder.buffer, match.end)]

\* Mutant: no start chunk announces the tool call.
FinishMatchedHeader_NoStart(t, chunk_from, match) ==
    [EmitArgumentDelta([t EXCEPT !.builder.tool_name = match.name,
                                 !.builder.tool_id = match.id,
                                 !.builder.buffer = <<>>,
                                 !.state = "ARGUMENT_BUILD"],
                       From(t.builder.buffer, match.end),
                       chunk_from)
        EXCEPT !.header = TRUE,
               !.raw = From(t.builder.buffer, match.end)]

\* _try_finish_tool_header once function_pattern has matched
FinishMatchedHeader(t, chunk_from, match) ==
    [EmitArgumentDelta([t EXCEPT !.builder.tool_name = match.name,
                                 !.builder.tool_id = match.id,
                                 !.builder.buffer = <<>>,
                                 !.state = "ARGUMENT_BUILD"],
                       From(t.builder.buffer, match.end),
                       chunk_from)
        EXCEPT !.out = <<CreateToolCallStartChunk(match.name, match.id, chunk_from)>> \o @,
               !.header = TRUE,
               !.raw = From(t.builder.buffer, match.end)]

\* Mutant: a chunk that does not complete the header is forwarded.
HeaderMatched_Forwarding(t, chunk_from, match) ==
    IF ~match.found THEN Result(t, <<chunk_from>>, FALSE, <<>>, FALSE)
    ELSE FinishMatchedHeader(t, chunk_from, match)

\* The test on function_pattern.search in _try_finish_tool_header
HeaderMatched(t, chunk_from, match) ==
    IF ~match.found THEN Result(t, <<>>, FALSE, <<>>, FALSE)
    ELSE FinishMatchedHeader(t, chunk_from, match)

\* _try_finish_tool_header(chunk_from, add_to_pending)
TryFinishToolHeader(t, chunk_from) ==
    HeaderMatched(t, chunk_from, function_pattern_search(t.builder.buffer))

\* Mutant: the chunk with the header is not kept for the fallback.
SplitHeader_NotQueued(t, chunk, cleaned, header_start) ==
    IF header_start = 0 THEN Result(t, <<chunk>>, FALSE, <<>>, FALSE)
    ELSE [TryFinishToolHeader(
              [state |-> "TOOL_CALL_BUILD",
               builder |-> [NewBuilder EXCEPT !.buffer = From(cleaned, header_start)],
               pending_chunks |-> <<>>],
              chunk)
            EXCEPT !.out =
                (IF Strip(SubSeq(cleaned, 1, header_start - 1)) # <<>>
                 THEN <<CloneChunkWithReasoning(chunk,
                                                SubSeq(cleaned, 1, header_start - 1))>>
                 ELSE <<>>) \o @]

\* _process_idle_state from the split of the cleaned text on: the prefix
\* before the header is yielded, then the header is tried.
SplitHeader(t, chunk, cleaned, header_start) ==
    IF header_start = 0 THEN Result(t, <<chunk>>, FALSE, <<>>, FALSE)
    ELSE [TryFinishToolHeader(
              [state |-> "TOOL_CALL_BUILD",
               builder |-> [NewBuilder EXCEPT !.buffer = From(cleaned, header_start)],
               pending_chunks |-> <<chunk>>],
              chunk)
            EXCEPT !.out =
                (IF Strip(SubSeq(cleaned, 1, header_start - 1)) # <<>>
                 THEN <<CloneChunkWithReasoning(chunk,
                                                SubSeq(cleaned, 1, header_start - 1))>>
                 ELSE <<>>) \o @]

\* Mutant: the chunk with the marker is kept in the pending queue.
ProcessCleaned_Queued(t, chunk, cleaned, has_marker, looks_like_header) ==
    IF ~has_marker /\ ~looks_like_header
    THEN Result(t, <<chunk>>, FALSE, <<>>, FALSE)
    ELSE IF has_marker /\ ~Contains(cleaned, FunctionsDot)
    THEN Result([state |-> "TOOL_CALL_BUILD",
                 builder |-> NewBuilder,
                 pending_chunks |-> <<chunk>>],
                <<CloneChunkWithReasoning(chunk, cleaned)>>,
                FALSE, <<>>, FALSE)
    ELSE SplitHeader(t, chunk, cleaned, Find(cleaned, FunctionsDot))

\* _process_idle_state once the markers are stripped and detected
ProcessCleaned(t, chunk, cleaned, has_marker, looks_like_header) ==
    IF ~has_marker /\ ~looks_like_header
    THEN Result(t, <<chunk>>, FALSE, <<>>, FALSE)
    ELSE IF has_marker /\ ~Contains(cleaned, FunctionsDot)
    THEN Result([state |-> "TOOL_CALL_BUILD",
                 builder |-> NewBuilder,
                 pending_chunks |-> <<>>],
                <<CloneChunkWithReasoning(chunk, cleaned)>>,
                FALSE, <<>>, FALSE)
    ELSE SplitHeader(t, chunk, cleaned, Find(cleaned, FunctionsDot))

ProcessDetected(t, chunk, sd) ==
    ProcessCleaned(t, chunk, sd.cleaned, sd.has_marker, LooksLikeToolStart(sd.cleaned))

\* _process_idle_state(chunk, reasoning_content)
ProcessIdleState(t, chunk, reasoning_content) ==
    IF Falsy(reasoning_content) THEN Result(t, <<chunk>>, FALSE, <<>>, FALSE)
    ELSE ProcessDetected(t, chunk, StripMarkersAndDetect(reasoning_content))

\* Mutant: the chunk is not kept for the fallback.
ProcessToolCallBuildState_NotQueued(t, chunk, reasoning_content) ==
    LET cleaned == StripMarkersAndDetect(OrEmpty(reasoning_content)).cleaned
        t1 == [t EXCEPT !.builder.buffer = @ \o cleaned]
    IN TryFinishToolHeader(t1, chunk)

\* _process_tool_call_build_state(chunk, reasoning_content)
ProcessToolCallBuildState(t, chunk, reasoning_content) ==
    LET cleaned == StripMarkersAndDetect(OrEmpty(reasoning_content)).cleaned
        t1 == [t EXCEPT !.builder.buffer = @ \o cleaned,
                        !.pending_chunks = Append(@, chunk)]
    IN TryFinishToolHeader(t1, chunk)

\* _process_argument_build_state(chunk, reasoning_content)
ProcessArgumentBuildState(t, chunk, reasoning_content) ==
    EmitArgumentDelta([t EXCEPT !.pending_chunks = Append(@, chunk)],
                      OrEmpty(reasoning_content), chunk)

\* process_chunk(chunk), run to the end of the generator
ProcessChunk(t, chunk) ==
    IF ~IsValidChunk(chunk)
    THEN IF t.state = "IDLE"
         THEN Result(t, <<chunk>>, FALSE, <<>>, FALSE)
         \* list(chunk.keys()), an argument of logger.debug, on a non-dict
         ELSE IF chunk.shape = "not_object" THEN Raised(t)
         ELSE Result([t EXCEPT !.pending_chunks = Append(@, chunk)],
                     <<>>, FALSE, <<>>, FALSE)
    \* delta.get("reasoning_content") on delta = None
    ELSE IF chunk.shape = "delta_null" THEN Raised(t)
    ELSE LET reasoning_content == chunk.delta.reasoning_content IN
         IF t.state = "IDLE" /\ Falsy(reasoning_content)
         THEN Result(t, <<chunk>>, FALSE, <<>>, FALSE)
         ELSE IF t.state = "IDLE"
         THEN ProcessIdleState(t, chunk, reasoning_content)
         ELSE IF t.state = "TOOL_CALL_BUILD"
         THEN ProcessToolCallBuildState(t, chunk, reasoning_content)
         ELSE ProcessArgumentBuildState(t, chunk, reasoning_content)

\* Mutant: the flush forgets the reset.
FlushPending_NoReset(t) == Result(t, t.pending_chunks, FALSE, <<>>, FALSE)

\* flush_pending(), run to the end of the generator
FlushPending(t) == Result(ResetState(t), t.pending_chunks, FALSE, <<>>, FALSE)

\* ------------------------------------------------------------------------
\* Response aggregator (StreamingResponseAggregator), for the fields of a
\* chunk the model carries: a = [choices, raised]
\* ------------------------------------------------------------------------

\* StreamingResponseAggregator.__init__; raised says that a process_chunk
\* call ended in an exception.
NewAggregator == [choices |-> <<>>, raised |-> FALSE]

\* The slot process_chunk creates for a choice of the first chunk
NewSlot ==
    [index |-> 0,
     delta |-> [content |-> Absent, reasoning_content |-> Absent,
                tool_calls |-> AbsentToolCalls],
     finish_reason |-> None]

\* current + new for an accumulated text: absent and null count as ""
Accumulated_Overwrite(current, new) == OrEmpty(new)
Accumulated(current, new) == OrEmpty(current) \o OrEmpty(new)

\* Mutant: a key the fragment lacks counts as an empty value.
AccumulatedKey_Always(current, new) == Accumulated(current, IF new = Absent THEN <<>> ELSE new)

\* The same for a key of a tool call's function, which a fragment may lack
AccumulatedKey(current, new) ==
    IF new = Absent THEN current ELSE Accumulated(current, new)

\* The position of the accumulated tool call with the index of tool_call
\* (0 if none): the first one found
ExistingIdx(calls, tool_call) ==
    LET found == {idx \in 1..Len(calls) : calls[idx].index = tool_call.index}
    IN IF found = {} THEN 0 ELSE Min(found)

\* existing['function'], which is {'name': '', 'arguments': ''} if the entry
\* has no such key when a fragment with a function arrives
FunctionOf(existing) ==
    IF "function" \in DOMAIN existing THEN existing.function
    ELSE [name |-> <<>>, arguments |-> <<>>]

\* The entry existing with 'function' set to function
WithFunction(existing, function) ==
    [key \in DOMAIN existing \cup {"function"} |->
        IF key = "function" THEN function ELSE existing[key]]

\* One tool call of a delta: appended to the entry with its index, or added
MergeToolCall(calls, tool_call, existing_idx) ==
    IF existing_idx # 0
    THEN IF "function" \in DOMAIN tool_call
         THEN [calls EXCEPT ![existing_idx] =
                 WithFunction(@,
                     [name |-> AccumulatedKey(FunctionOf(@).name,
                                              tool_call.function.name),
                      arguments |-> AccumulatedKey(FunctionOf(@).arguments,
                                                   tool_call.function.arguments)])]
         ELSE calls
    ELSE Append(calls, tool_call)

\* The loop over tool_calls_delta, from its k-th entry on
RECURSIVE MergeToolCalls(_, _, _)
MergeToolCalls(calls, tool_calls_delta, k) ==
    IF k > Len(tool_calls_delta) THEN calls
    ELSE MergeToolCalls(MergeToolCall(calls, tool_calls_delta[k],
                                      ExistingIdx(calls, tool_calls_delta[k])),
                        tool_calls_delta, k + 1)

\* The body of the loop over the chunk's choices, for choices[0]: delta is
\* choice.get('delta', {}), finish_reason is Absent if the choice has no
\* such key.
Accumulate(slot, delta, finish_reason) ==
    [index |-> slot.index,
     delta |->
        [content |-> IF delta.content # Absent
                     THEN Accumulated(slot.delta.content, delta.content)
                     ELSE slot.delta.content,
         reasoning_content |-> IF delta.reasoning_content # Absent
                               THEN Accumulated(slot.delta.reasoning_content,
                                                delta.reasoning_content)
                               ELSE slot.delta.reasoning_content,
         tool_calls |-> IF delta.tool_calls.tag = "list" /\ delta.tool_calls.calls # <<>>
                        THEN [tag |-> "list",
                              calls |-> MergeToolCalls(slot.delta.tool_calls.calls,
                                                       delta.tool_calls.calls, 1)]
                        ELSE slot.delta.tool_calls],
     finish_reason |-> IF finish_reason # Absent THEN finish_reason
                       ELSE slot.finish_reason]

\* process_chunk for a chunk with one choice, the slots being initialised
\* if there are none yet
AccumulateFirst(a, slots, chunk) ==
    [a EXCEPT !.choices =
        [slots EXCEPT ![1] = Accumulate(@,
                                        IF chunk.shape = "no_delta" THEN EmptyDelta
                                        ELSE chunk.delta,
                                        chunk.finish_reason)]]

\* StreamingResponseAggregator.process_chunk(chunk)
AggregatorProcessChunk(a, chunk) ==
    \* 'choices' not in chunk on a non-container, choice.get on a non-dict,
    \* 'content' in delta on None
    IF chunk.shape \in {"not_object", "first_not_object", "delta_null"}
    THEN [a EXCEPT !.raised = TRUE]
    ELSE IF chunk.shape = "no_choices" THEN a
    ELSE IF chunk.shape = "empty_choices" THEN a
    ELSE AccumulateFirst(a, IF a.choices = <<>> THEN <<NewSlot>> ELSE a.choices, chunk)

\* process_chunk on each chunk of a sequence, from the k-th on
RECURSIVE AggregatorProcessAll(_, _, _)
AggregatorProcessAll(a, chunks, k) ==
    IF k > Len(chunks) THEN a
    ELSE AggregatorProcessAll(AggregatorProcessChunk(a, chunks[k]), chunks, k + 1)

\* get_final_response(): the message of each choice (none says that the
\* method returns None)
GetFinalResponse(a) ==
    [none |-> a.choices = <<>>,
     choices |->
        [i \in 1..Len(a.choices) |->
            [index |-> a.choices[i].index,
             message |->
                [role |-> "assistant",
                 content |-> IF a.choices[i].delta.content = Absent THEN <<>>
                             ELSE a.choices[i].delta.content,
                 reasoning_content |->
                     IF a.choices[i].delta.reasoning_content = Absent THEN <<>>
                     ELSE a.choices[i].delta.reasoning_content,
                 tool_calls |-> a.choices[i].delta.tool_calls.calls],
             finish_reason |-> a.choices[i].finish_reason]]]

\* ------------------------------------------------------------------------
\* The aggregator on whole chunks: chunk = [has_choices, choices, usage,
\* system_fingerprint, model], a choice = [index, delta, finish_reason,
\* logprobs]; a key the chunk or the choice lacks is Absent.
\* w = [choices, usage, system_fingerprint, model]
\* ------------------------------------------------------------------------

\* StreamingResponseAggregator.__init__
NewWholeAggregator ==
    [choices |-> <<>>, usage |-> None, system_fingerprint |-> None, model |-> None]

\* The slot process_chunk creates for choice
SlotFor(choice) ==
    [index |-> IF "index" \in DOMAIN choice THEN choice.index ELSE 0,
     delta |-> NewSlot.delta,
     finish_reason |-> None,
     logprobs |-> IF choice.logprobs = Absent THEN None ELSE choice.logprobs]

\* self.choices as process_chunk finds or initialises it
SlotsFor(w, chunk) ==
    IF w.choices = <<>>
    THEN [k \in 1..Len(chunk.choices) |-> SlotFor(chunk.choices[k])]
    ELSE w.choices

\* The body of the loop over the chunk's choices
AccumulateChoice(slot, choice) ==
    [index |-> slot.index,
     delta |-> Accumulate(slot, choice.delta, choice.finish_reason).delta,
     finish_reason |-> IF choice.finish_reason # Absent THEN choice.finish_reason
                       ELSE slot.finish_reason,
     logprobs |-> IF choice.logprobs # Absent THEN choice.logprobs
                  ELSE slot.logprobs]

\* for i, choice in enumerate(chunk['choices']): the i-th choice goes into
\* self.choices[i]; a choice beyond the slots is skipped
AccumulateChoices(slots, choices) ==
    [i \in 1..Len(slots) |->
        IF i <= Len(choices) THEN AccumulateChoice(slots[i], choices[i])
        ELSE slots[i]]

\* StreamingResponseAggregator.process_chunk(chunk)
ProcessWholeChunk(w, chunk) ==
    IF ~chunk.has_choices THEN w
    ELSE [choices |-> AccumulateChoices(SlotsFor(w, chunk), chunk.choices),
          usage |-> IF chunk.usage # Absent THEN chunk.usage ELSE w.usage,
          system_fingerprint |-> IF chunk.system_fingerprint # Absent
                                 THEN chunk.system_fingerprint
                                 ELSE w.system_fingerprint,
          model |-> IF chunk.model # Absent THEN chunk.model ELSE w.model]

\* get_final_response() (none says that the method returns None)
WholeFinalResponse(w) ==
    [none |-> w.choices = <<>>,
     model |-> IF Falsy(w.model) THEN <<"u","n","k","n","o","w","n">> ELSE w.model,
     choices |->
        [i \in 1..Len(w.choices) |->
            [index |-> w.choices[i].index,
             message |-> GetFinalResponse([choices |-> <<w.choices[i]>>,
                                           raised |-> FALSE]).choices[1].message,
             finish_reason |-> w.choices[i].finish_reason,
             logprobs |-> w.choices[i].logprobs]],
     usage |-> w.usage,
     system_fingerprint |-> w.system_fingerprint]

\* A choice with the keys index and delta, the delta carrying content
ContentChoice(index, content) ==
    [index |-> index,
     delta |-> [EmptyDelta EXCEPT !.content = content],
     finish_reason |-> Absent,
     logprobs |-> Absent]

\* A chunk with these choices and no other key
ChoicesChunk(choices) ==
    [has_choices |-> TRUE, choices |-> choices,
     usage |-> Absent, system_fingerprint |-> Absent, model |-> Absent]

\* The chunks fed to see the slots: each choice carries its own letter
ChoiceChunks ==
    { ChoicesChunk(<<ContentChoice(0, <<"a">>)>>),
      ChoicesChunk(<<ContentChoice(1, <<"b">>)>>),
      ChoicesChunk(<<ContentChoice(0, <<"a">>), ContentChoice(1, <<"b">>)>>),
      ChoicesChunk(<<ContentChoice(1, <<"b">>), ContentChoice(0, <<"a">>)>>),
      ChoicesChunk(<<>>) }

\* The function objects a tool-call fragment may carry, its texts being letter
FragmentFunctions(letter) ==
    [name : {Absent, None, <<letter>>}, arguments : {Absent, None, <<letter>>}]

\* The tool-call fragments fed as the n-th: with or without a function
Fragments(n) ==
    { [index |-> index] : index \in {0, 1} }
    \cup { [index |-> index, function |-> function] :
              index \in {0, 1},
              function \in FragmentFunctions(<<"p", "q", "r", "s">>[n]) }

\* A chunk whose one choice carries the tool-call fragments calls
FragmentChunk(calls) ==
    ChoicesChunk(<<[index |-> 0,
                    delta |-> [EmptyDelta EXCEPT
                                  !.tool_calls = [tag |-> "list", calls |-> calls]],
                    finish_reason |-> Absent,
                    logprobs |-> Absent]>>)

\* The top-level keys a chunk may carry besides 'choices', their values
\* being letter
Metadata(letter) ==
    { [usage |-> Absent, system_fingerprint |-> Absent, model |-> Absent],
      [usage |-> <<letter>>, system_fingerprint |-> Absent, model |-> Absent],
      [usage |-> Absent, system_fingerprint |-> <<letter>>, model |-> <<letter>>],
      [usage |-> <<letter>>, system_fingerprint |-> <<letter>>, model |-> <<letter>>] }

\* A chunk with or without 'choices', its one choice carrying finish_reason
\* and logprobs, and with the top-level keys of metadata
MetadataChunk(has_choices, finish_reason, logprobs, metadata) ==
    [has_choices |-> has_choices,
     choices |-> IF has_choices
                 THEN <<[index |-> 0, delta |-> EmptyDelta,
                         finish_reason |-> finish_reason, logprobs |-> logprobs]>>
                 ELSE <<>>,
     usage |-> metadata.usage,
     system_fingerprint |-> metadata.system_fingerprint,
     model |-> metadata.model]

\* The chunks fed as the n-th to see the metadata: the closing chunk of a
\* stream with stream_options.include_usage carries usage and no choices key
\* or an empty list, depending on the server
MetadataChunks(n) ==
    { MetadataChunk(TRUE, finish_reason, logprobs, metadata) :
        finish_reason \in {Absent, <<<<"p", "q", "r", "s">>[n]>>},
        logprobs \in {Absent, <<<<"p", "q", "r", "s">>[n]>>},
        metadata \in Metadata(<<"p", "q", "r", "s">>[n]) }
    \cup { MetadataChunk(FALSE, Absent, Absent, metadata) :
              metadata \in Metadata(<<"p", "q", "r", "s">>[n])
                              \ {[usage |-> Absent, system_fingerprint |-> Absent,
                                  model |-> Absent]} }

\* The number of chunks fed to one aggregator
MaxWholeChunks == 3

\* ------------------------------------------------------------------------
\* The texts fed to the transformer and the places they may be cut
\* ------------------------------------------------------------------------

\* The four reasoning_content values of the worked example
Example1 == <<"L","e","t"," ","m","e"," ","c","h","e","c","k","."," ">>
Example2 == CallBegin
            \o <<"f","u","n","c","t","i","o","n","s",".","r","e","a","d","_","f","i","l","e",":","1">>
            \o ArgumentBegin
            \o <<"{","\"","p","a","t","h","\"",":">>
Example3 == <<"\"","a",".","t","x","t","\"","}">>
Example4 == CallEnd
ExampleText == Example1 \o Example2 \o Example3 \o Example4

\* functions.f:12 {"a":{"b":"\"}"}} and a trailing blank: a two-digit id,
\* blanks around the arguments, a nested object, and an escaped quote and a
\* brace inside a string.
NestedText == <<"f","u","n","c","t","i","o","n","s",".","f",":","1","2"," ",
                "{","\"","a","\"",":","{","\"","b","\"",":","\"","\\","\"","}","\"","}","}"," ">>

\* A control-range character, a header, the argument marker, {"k": 1}, the
\* section end marker and ordinary text after it.
ControlText == <<"U+0F00">>
               \o <<"f","u","n","c","t","i","o","n","s",".","g",":","3">>
               \o ArgumentBegin
               \o <<"{","\"","k","\"",":"," ","1","}">>
               \o SectionEnd
               \o <<"o","k">>

\* functions.h:7{"a": and the call end marker: a tool call whose arguments
\* are cut short, with ordinary text after the marker.
TruncatedText == <<"f","u","n","c","t","i","o","n","s",".","h",":","7">>
                 \o <<"{","\"","a","\"",":">>
                 \o CallEnd
                 \o <<"o","k">>

\* Each scenario is a text and the positions (number of characters before
\* the cut) at which it may be split into chunks.
Scenarios ==
    << [text |-> ExampleText, cuts |-> {14, 20, 69, 90, 98, 110}],
       [text |-> NestedText, cuts |-> {10, 13, 15, 20, 27, 31}],
       [text |-> ControlText, cuts |-> {1, 5, 14, 48, 50, 76}],
       [text |-> TruncatedText, cuts |-> {13, 18, 35}] >>

\* Chunks without tool-call text that may arrive between the text chunks:
\* one carrying content and a finish_reason, and an invalid one.
OtherChunks(n) ==
    { UpstreamChunk(n, None, <<"h","i">>, <<"stop">>),
      InvalidChunk(n, "no_choices") }

\* Parsed JSON values that do not follow the chunk schema
UnexpectedChunks(n) ==
    { InvalidChunk(n, shape) :
        shape \in {"not_object", "no_choices", "empty_choices", "no_delta", "delta_null"} }

\* The number of calls (process_chunk or flush_pending) made on one transformer
MaxCalls == 5

\* The number of leading calls among which unexpected values may arrive
MaxUnexpected == 3

\* The number of upstream lines one relayed stream carries
MaxLines == 4

\* The number of lines one network read carries
MaxReadLines == 2

\* ------------------------------------------------------------------------
\* The chat-completions request (proxy_chat_completions and
\* forward_chat_completion)
\* ------------------------------------------------------------------------

\* How the upstream server answers the request the proxy makes
UpstreamOutcomes ==
    { [kind |-> "ok", status_code |-> 200],
      [kind |-> "timeout", status_code |-> 0],
      [kind |-> "connect_error", status_code |-> 0],
      [kind |-> "status", status_code |-> 503] }

NoException == [type |-> "none", status_code |-> 0]
HTTPException(status_code) == [type |-> "HTTPException", status_code |-> status_code]

\* The exception the request to the upstream server ends in (client.post,
\* client.stream and the status check after them)
UpstreamRaises(outcome) ==
    IF outcome.kind = "timeout" THEN [type |-> "TimeoutException", status_code |-> 0]
    ELSE IF outcome.kind = "connect_error" THEN [type |-> "ConnectError", status_code |-> 0]
    ELSE IF outcome.status_code # 200 THEN HTTPException(outcome.status_code)
    ELSE NoException

\* The except clauses of forward_chat_completion
Classified(exception) ==
    IF exception.type = "none" THEN NoException
    ELSE IF exception.type = "TimeoutException" THEN HTTPException(504)
    ELSE IF exception.type = "ConnectError" THEN HTTPException(502)
    ELSE HTTPException(500)

\* forward_chat_completion: the exception it raises.  For a streaming request
\* it returns the generator, which has not contacted the upstream server yet.
ForwardChatCompletion(is_streaming, outcome) ==
    IF is_streaming THEN NoException
    ELSE Classified(UpstreamRaises(outcome))

\* proxy_chat_completions: the status code of the response it returns
ProxyChatCompletions(raised) ==
    IF raised.type # "none" THEN 500 ELSE 200

\* The request, where it stands, and the response to it
Request(pc, is_streaming, outcome, status_code) ==
    [pc |-> pc, is_streaming |-> is_streaming, outcome |-> outcome,
     status_code |-> status_code]

\* A request the proxy has not looked at yet
NewRequest == Request("new", FALSE, "none", 0)

\* A streaming request whose upstream request was answered with status 200
Streaming == Request("streaming", TRUE, "ok", 200)

\* ------------------------------------------------------------------------
\* Two streaming requests served at the same time: p = [streams,
\* transformers, aggregators], the objects being held apart from the
\* generators that use them
\* ------------------------------------------------------------------------

\* The number of upstream lines each of the two streams carries
MaxPairLines == 2

PairIds == {1, 2}

\* The locals of one stream_generator other than its two objects; inputs is
\* the upstream lines it has read.  Request r streams the r-th text.
NewStream(r) ==
    [scenario |-> r, pos |-> 0, downstream |-> <<>>, done_sent |-> FALSE,
     ended |-> FALSE, inputs |-> <<>>]

NewPair ==
    [streams |-> [r \in PairIds |-> NewStream(r)],
     transformers |-> [i \in PairIds |-> NewTransformer],
     aggregators |-> [i \in PairIds |-> NewAggregator]]

\* The transformer the generator of request r uses: the one it has created
TransformerOf_Singleton(r) == 1
TransformerOf(r) == r

\* The aggregator the generator of request r uses: the one it has created
AggregatorOf(r) == r

\* ------------------------------------------------------------------------
\* One conversation turn, cut into delta chunks
\* ------------------------------------------------------------------------

\* The texts of the turn: content, reasoning, and the name and arguments of
\* its tool call
TurnTexts ==
    [content |-> <<"h","i">>,
     reasoning_content |-> <<"o","k">>,
     name |-> <<"g","e","t">>,
     arguments |-> <<"{","\"","a","\"",":","1","}">>]

TurnFields == {"content", "reasoning_content", "name", "arguments"}

\* The number of delta chunks the turn is cut into
MaxTurnChunks == 4

\* at[f] is the number of characters of text f sent so far
NewTurn ==
    [at |-> [f \in TurnFields |-> 0], chunks |-> 0, fragments |-> 0,
     aggregator |-> NewAggregator]

\* A fragment of the turn's tool call: the first one carries id and type, a
\* fragment without a piece of the name carries null for it
ToolCallFragment(first, name, arguments) ==
    [id |-> IF first THEN ToolCallId(TurnTexts.name, <<"0">>) ELSE None,
     index |-> 0,
     type |-> IF first THEN "function" ELSE "None",
     function |-> [name |-> IF name = <<>> THEN None ELSE name,
                   arguments |-> arguments]]

\* A delta chunk with a piece of each text it carries; has_content,
\* has_reasoning and has_call say which keys the delta has
TurnChunk(n, has_content, content, has_reasoning, reasoning, has_call, call) ==
    [n |-> n, shape |-> "valid",
     delta |-> [role |-> None,
                content |-> IF has_content THEN content ELSE Absent,
                reasoning_content |-> IF has_reasoning THEN reasoning ELSE Absent,
                tool_calls |-> IF has_call THEN [tag |-> "list", calls |-> <<call>>]
                               ELSE AbsentToolCalls],
     finish_reason |-> None]

\* ------------------------------------------------------------------------
\* State
\* ------------------------------------------------------------------------

VARIABLES
    state,           \* StreamingToolCallTransformer.state
    builder,         \* StreamingToolCallTransformer.builder
    pending_chunks,  \* StreamingToolCallTransformer.pending_chunks
    scenario,        \* index of the text being streamed
    pos,             \* number of its characters fed so far
    log,             \* one record per call made on the transformer
    downstream,      \* what stream_generator has yielded, in order
    done_sent,       \* stream_generator's done_sent
    ended,           \* stream_generator has returned
    received,        \* number of upstream lines stream_generator has read
    enabled,         \* settings.ENABLE_STREAMING_TOOL_PARSER
    aggregator,      \* stream_generator's aggregator
    error_log,       \* the lines passed to proxy_logger.log_error, in order
    upstream,        \* the network reads stream_generator has taken, in order
    failure,         \* the exception that ended stream_generator, if any
    http,            \* the chat-completions request and the response to it
    pair,            \* two streaming requests served at the same time
    turn,            \* one conversation turn being fed to an aggregator
    objects,         \* the chunk objects the transformer's calls have touched
    whole            \* an aggregator and the whole chunks fed to it

vars == <<state, builder, pending_chunks, scenario, pos, log,
          downstream, done_sent, ended, received,
          enabled, aggregator, error_log, upstream, failure, http, pair, turn,
          objects, whole>>

relay == <<downstream, done_sent, ended, received,
           enabled, aggregator, error_log, upstream, failure, http, pair, turn, whole>>

\* ------------------------------------------------------------------------
\* Chunks as objects.  o = [cells, input, pending, yielded]: cells[ref] is
\* the present value of the object ref; input[i] is the object passed to call
\* i (0 for a flush); pending holds, for each entry of self.pending_chunks,
\* the object and the call whose chunk it was taken from; yielded[i] are the
\* objects call i yielded.
\* ------------------------------------------------------------------------

NewObjects == [cells |-> <<>>, input |-> <<>>, pending |-> <<>>, yielded |-> <<>>]

\* copy.deepcopy(chunk): a new object, the last cell, with the value of ref
Deepcopy(cells, ref) == Append(cells, cells[ref])

\* Mutant: the delta is stored into the chunk passed in.
SyntheticChunk_InPlace(cells, ref, delta) ==
    [cells |-> [cells EXCEPT ![ref].delta = delta], ref |-> ref]

\* new_chunk = copy.deepcopy(original_chunk) followed by the stores into
\* new_chunk's delta (_clone_chunk_with_reasoning, the two
\* _create_tool_call_*_chunk and _emit_argument_delta all build their chunk
\* this way)
SyntheticChunk(cells, ref, delta) ==
    [cells |-> [Deepcopy(cells, ref) EXCEPT ![Len(cells) + 1].delta = delta],
     ref |-> Len(cells) + 1]

\* The synthetic chunks outs of one call, each built from the chunk passed in
RECURSIVE SyntheticChunks(_, _, _)
SyntheticChunks(h, ref, outs) ==
    IF outs = <<>> THEN h
    ELSE SyntheticChunks(
             [cells |-> SyntheticChunk(h.cells, ref, Head(outs).delta).cells,
              refs |-> Append(h.refs, SyntheticChunk(h.cells, ref, Head(outs).delta).ref)],
             ref, Tail(outs))

\* The number of chunks a call yields before it queues its chunk: the
\* reasoning chunk _process_idle_state clones
ClonedFirst(outs) ==
    IF outs # <<>> /\ Head(outs).delta.tool_calls.tag # "list" THEN 1 ELSE 0

\* process_chunk(chunk) on the objects, r being what the call computed from
\* the transformer pre: the caller's chunk is a new object; "yield chunk"
\* yields that object; every other yield is a synthetic chunk;
\* pending_chunks takes a deep copy.
ObjectsProcess(o, chunk, pre, r) ==
    LET cells1 == Append(o.cells, chunk)
        ref == Len(cells1)
        \* the three "yield chunk" of IDLE leave the transformer as it was
        through == pre.state = "IDLE" /\ r.t.state = "IDLE" /\ ~r.header
        \* IDLE queues the chunk when the text holds "functions."; the
        \* building states always do
        queued == pre.state # "IDLE" \/ r.header \/ r.t.pending_chunks # <<>>
        s1 == SyntheticChunks([cells |-> cells1, refs |-> <<>>], ref,
                              SubSeq(r.out, 1, ClonedFirst(r.out)))
        cells2 == IF queued THEN Deepcopy(s1.cells, ref) ELSE s1.cells
        kept == IF queued
                THEN Append(IF pre.state = "IDLE" THEN <<>> ELSE o.pending,
                            [ref |-> Len(cells2), call |-> Len(o.input) + 1])
                ELSE <<>>
        s3 == SyntheticChunks([cells |-> cells2, refs |-> s1.refs], ref,
                              SubSeq(r.out, ClonedFirst(r.out) + 1, Len(r.out)))
    IN IF r.raised \/ through
       THEN [cells |-> cells1,
             input |-> Append(o.input, ref),
             pending |-> o.pending,
             yielded |-> Append(o.yielded, IF r.raised THEN <<>> ELSE <<ref>>)]
       ELSE [cells |-> s3.cells,
             input |-> Append(o.input, ref),
             \* _reset_state: self.pending_chunks = []
             pending |-> IF r.t.pending_chunks = <<>> THEN <<>> ELSE kept,
             yielded |-> Append(o.yielded, s3.refs)]

\* flush_pending() on the objects: the queued objects themselves are yielded
ObjectsFlush(o) ==
    [cells |-> o.cells,
     input |-> Append(o.input, 0),
     pending |-> <<>>,
     yielded |-> Append(o.yielded, [k \in 1..Len(o.pending) |-> o.pending[k].ref])]

\* The transformer object
Transformer == [state |-> state, builder |-> builder, pending_chunks |-> pending_chunks]

\* Placeholder for the chunk of a flush record
NoChunk == InvalidChunk(0, "not_object")

\* The effect of one call: the transformer takes the result's state and the
\* call is recorded with the transformer before and after it.
Apply(op, chunk, r) ==
    /\ state' = r.t.state
    /\ builder' = r.t.builder
    /\ pending_chunks' = r.t.pending_chunks
    /\ log' = Append(log, [op |-> op, chunk |-> chunk, pre |-> Transformer,
                           post |-> r.t, out |-> r.out, header |-> r.header,
                           raw |-> r.raw, complete |-> r.complete,
                           raised |-> r.raised])
    /\ objects' = IF op = "flush" THEN ObjectsFlush(objects)
                  ELSE ObjectsProcess(objects, chunk, Transformer, r)

\* The state after construction, the transform flag being e and the request
\* being at h
Start(e, h) ==
    /\ state = NewTransformer.state
    /\ builder = NewTransformer.builder
    /\ pending_chunks = NewTransformer.pending_chunks
    /\ scenario \in 1..Len(Scenarios)
    /\ pos = 0
    /\ log = <<>>
    /\ downstream = <<>>
    /\ done_sent = FALSE
    /\ ended = FALSE
    /\ received = 0
    /\ enabled = e
    /\ aggregator = NewAggregator
    /\ error_log = <<>>
    /\ upstream = <<>>
    /\ failure = "none"
    /\ http = h
    /\ pair = NewPair
    /\ turn = NewTurn
    /\ objects = NewObjects
    /\ whole = [aggregator |-> NewWholeAggregator, chunks |-> <<>>]

Init == Start(TRUE, Streaming)

\* process_chunk on the next piece of the scenario's text
ProcessText ==
    /\ Len(log) < MaxCalls
    /\ \E end \in Scenarios[scenario].cuts \cup {Len(Scenarios[scenario].text)} :
          /\ end > pos
          /\ LET chunk == UpstreamChunk(Len(log) + 1,
                                        SubSeq(Scenarios[scenario].text, pos + 1, end),
                                        None, None)
             IN Apply("text", chunk, ProcessChunk(Transformer, chunk))
          /\ pos' = end
    /\ UNCHANGED <<scenario, relay>>

\* process_chunk on a chunk that carries no reasoning text
ProcessOther ==
    /\ Len(log) < MaxCalls
    /\ \E chunk \in OtherChunks(Len(log) + 1) :
          Apply("other", chunk, ProcessChunk(Transformer, chunk))
    /\ UNCHANGED <<scenario, pos, relay>>

\* flush_pending
Flush ==
    /\ Len(log) < MaxCalls
    /\ Apply("flush", NoChunk, FlushPending(Transformer))
    /\ UNCHANGED <<scenario, pos, relay>>

Next == ProcessText \/ ProcessOther \/ Flush

Spec == Init /\ [][Next]_vars

\* process_chunk on a parsed JSON value that does not follow the chunk schema
ProcessUnexpected ==
    /\ Len(log) < MaxUnexpected
    /\ \E chunk \in UnexpectedChunks(Len(log) + 1) :
          Apply("unexpected", chunk, ProcessChunk(Transformer, chunk))
    /\ UNCHANGED <<scenario, pos, relay>>

NextShapes == ProcessText \/ ProcessUnexpected \/ Flush

\* The transformer fed with text chunks and with unexpected values
SpecShapes == Init /\ [][NextShapes]_vars

TypeOK ==
    /\ state \in {"IDLE", "TOOL_CALL_BUILD", "ARGUMENT_BUILD"}
    /\ builder.brace_depth \in Nat
    /\ pos \in Nat
    /\ done_sent \in BOOLEAN
    /\ ended \in BOOLEAN
    /\ received \in 0..MaxLines
    /\ enabled \in BOOLEAN
    /\ aggregator.raised \in BOOLEAN
    /\ failure \in {"none", "decode", "aggregator", "timeout", "connect_error", "status", "cancelled"}
    /\ http.pc \in {"new", "responded", "opening", "streaming", "aborted", "reading", "yielded", "finished", "closed"}

\* ------------------------------------------------------------------------
\* The streaming relay with the transformer enabled (stream_generator),
\* one step per upstream line, and one at the end of the upstream stream
\* ------------------------------------------------------------------------

\* What stream_generator yields.  from says where a written item comes from:
\* transformer.process_chunk, transformer.flush_pending, or the relay itself.
Written(chunks, from) ==
    [i \in 1..Len(chunks) |-> [kind |-> "chunk", from |-> from, chunk |-> chunks[i]]]

\* b"data: [DONE]\n\n"
Sentinel == [kind |-> "done", from |-> "relay", chunk |-> NoChunk]

\* (line + "\n") for the n-th line, which is no JSON
FallbackLine(n) == [kind |-> "line", from |-> "relay", chunk |-> InvalidChunk(n, "not_object")]

\* One line of a network read: a "data: " line with a JSON payload (chunk),
\* the line "data: [DONE]" (done), a "data: " line that json.loads rejects
\* (malformed), or a line that does not start with "data: " (other)
Line(kind, chunk) == [kind |-> kind, chunk |-> chunk]

\* A network read; split says that it ends inside a multi-byte character
Read(lines, split) == [lines |-> lines, split |-> split]

\* The read that holds one whole line
OneLine(kind, chunk) == Read(<<Line(kind, chunk)>>, FALSE)

\* Mutant: the chunks of flush_pending are written without being aggregated.
Deliver_FlushUnfolded(r, from, tail) ==
    /\ state' = r.t.state
    /\ builder' = r.t.builder
    /\ pending_chunks' = r.t.pending_chunks
    /\ aggregator' = IF from = "flush" THEN aggregator
                     ELSE AggregatorProcessAll(aggregator, r.out, 1)
    /\ downstream' = downstream \o Written(r.out, from) \o tail

\* The for loops over transformer.process_chunk and transformer.flush_pending:
\* every chunk of the result is aggregated and written, then the items of
\* tail are written.
Deliver(r, from, tail) ==
    /\ state' = r.t.state
    /\ builder' = r.t.builder
    /\ pending_chunks' = r.t.pending_chunks
    /\ aggregator' = AggregatorProcessAll(aggregator, r.out, 1)
    /\ downstream' = downstream \o Written(r.out, from) \o tail

\* A "data: <json>" line whose chunk carries the next piece of the text
RelayText ==
    /\ ~ended
    /\ received < MaxLines
    /\ \E end \in Scenarios[scenario].cuts \cup {Len(Scenarios[scenario].text)} :
          /\ end > pos
          /\ Deliver(ProcessChunk(Transformer,
                                  UpstreamChunk(received + 1,
                                                SubSeq(Scenarios[scenario].text, pos + 1, end),
                                                None, None)),
                     "process", <<>>)
          /\ upstream' = Append(upstream,
                                OneLine("chunk",
                                        UpstreamChunk(received + 1,
                                                      SubSeq(Scenarios[scenario].text,
                                                             pos + 1, end),
                                                      None, None)))
          /\ pos' = end
    /\ received' = received + 1
    /\ UNCHANGED <<scenario, objects, whole, log, done_sent, ended, enabled, http, pair, turn, error_log, failure>>

\* A "data: <json>" line whose chunk carries no reasoning text
RelayOther ==
    /\ ~ended
    /\ received < MaxLines
    /\ \E chunk \in OtherChunks(received + 1) :
          /\ Deliver(ProcessChunk(Transformer, chunk), "process", <<>>)
          /\ upstream' = Append(upstream, OneLine("chunk", chunk))
    /\ received' = received + 1
    /\ UNCHANGED <<scenario, objects, whole, pos, log, done_sent, ended, enabled, http, pair, turn, error_log, failure>>

\* The line "data: [DONE]"
RelayDone ==
    /\ ~ended
    /\ received < MaxLines
    /\ Deliver(FlushPending(Transformer), "flush", <<Sentinel>>)
    /\ upstream' = Append(upstream, OneLine("done", NoChunk))
    /\ done_sent' = TRUE
    /\ received' = received + 1
    /\ UNCHANGED <<scenario, objects, whole, pos, log, ended, enabled, http, pair, turn, error_log, failure>>

\* A "data: " line that json.loads rejects
RelayMalformed ==
    /\ ~ended
    /\ received < MaxLines
    /\ error_log' = Append(error_log, Line("malformed", InvalidChunk(received + 1, "not_object")))
    /\ downstream' = Append(downstream, FallbackLine(received + 1))
    /\ upstream' = Append(upstream,
                          OneLine("malformed", InvalidChunk(received + 1, "not_object")))
    /\ received' = received + 1
    /\ UNCHANGED <<state, builder, pending_chunks, objects, whole, scenario, pos, log, done_sent, ended,
                   enabled, http, pair, turn, aggregator, failure>>

\* A line that does not start with "data: "
RelayIgnored ==
    /\ ~ended
    /\ received < MaxLines
    /\ upstream' = Append(upstream, OneLine("other", NoChunk))
    /\ received' = received + 1
    /\ UNCHANGED <<state, builder, pending_chunks, objects, whole, scenario, pos, log,
                   downstream, done_sent, ended, enabled, http, pair, turn, aggregator, error_log, failure>>

\* The upstream stream ends
RelayEnd ==
    /\ ~ended
    /\ IF ~done_sent
       THEN Deliver(FlushPending(Transformer), "flush", <<>>)
       ELSE UNCHANGED <<state, builder, pending_chunks, downstream, aggregator>>
    /\ ended' = TRUE
    /\ UNCHANGED <<scenario, objects, whole, pos, log, done_sent, received,
                   enabled, http, pair, turn, error_log, upstream, failure>>

NextRelay ==
    RelayText \/ RelayOther \/ RelayDone \/ RelayMalformed \/ RelayIgnored \/ RelayEnd

SpecRelay == Init /\ [][NextRelay]_vars

\* ------------------------------------------------------------------------
\* The streaming relay with the transformer disabled, one step per network
\* read, and the relay under either value of the flag
\* ------------------------------------------------------------------------

\* The lines a read may hold when the n-th line of the stream is its first
PlainLines(n) ==
    { Line("chunk", chunk) : chunk \in OtherChunks(n) \cup {InvalidChunk(n, "delta_null")} }
    \cup { Line("done", NoChunk),
           Line("malformed", InvalidChunk(n, "not_object")),
           Line("other", NoChunk) }

\* The sequences of lines a decodable read may hold
PlainReads(n) ==
    UNION { [1..len -> PlainLines(n)] : len \in 1..MaxReadLines }

\* The body of the loop over the lines of a read: acc = [aggregator,
\* error_log]; an exception of aggregator.process_chunk leaves the loop.
PlainLine(acc, line) ==
    IF acc.aggregator.raised THEN acc
    ELSE IF line.kind = "chunk"
    THEN [acc EXCEPT !.aggregator = AggregatorProcessChunk(@, line.chunk)]
    ELSE IF line.kind = "malformed"
    THEN [acc EXCEPT !.error_log = Append(@, line)]
    ELSE acc

\* The loop over the lines of a read, from the k-th line on
RECURSIVE PlainLoop(_, _, _)
PlainLoop(acc, lines, k) ==
    IF k > Len(lines) THEN acc
    ELSE PlainLoop(PlainLine(acc, lines[k]), lines, k + 1)

\* "yield chunk": the bytes of the read as they arrived
Forwarded(read) == [kind |-> "read", from |-> "relay", chunk |-> NoChunk, read |-> read]

\* What a read leaves behind once its lines have been looked at: it is
\* forwarded unless aggregator.process_chunk raised.
PlainForward(acc, read) ==
    /\ aggregator' = acc.aggregator
    /\ error_log' = acc.error_log
    /\ upstream' = Append(upstream, read)
    /\ received' = received + Len(read.lines)
    /\ IF acc.aggregator.raised
       THEN /\ ended' = TRUE
            /\ failure' = "aggregator"
            /\ UNCHANGED downstream
       ELSE /\ downstream' = Append(downstream, Forwarded(read))
            /\ UNCHANGED <<ended, failure>>

\* A read that decodes, with the flag off
PlainRead ==
    /\ ~enabled
    /\ ~ended
    /\ \E lines \in PlainReads(received + 1) :
          /\ received + Len(lines) <= MaxLines
          /\ PlainForward(PlainLoop([aggregator |-> aggregator, error_log |-> error_log],
                                    lines, 1),
                          Read(lines, FALSE))
    /\ UNCHANGED <<state, builder, pending_chunks, objects, whole, scenario, pos, log, done_sent, enabled, http, pair, turn>>

\* The upstream stream ends, with the flag off
PlainEnd ==
    /\ ~enabled
    /\ ~ended
    /\ ended' = TRUE
    /\ UNCHANGED <<state, builder, pending_chunks, objects, whole, scenario, pos, log, downstream,
                   done_sent, received, enabled, http, pair, turn, aggregator, error_log, upstream, failure>>

\* A read that ends inside a multi-byte character: chunk.decode("utf-8")
\* raises, whatever the flag
UndecodableRead ==
    /\ ~ended
    /\ received < MaxLines
    /\ upstream' = Append(upstream, Read(<<Line("other", NoChunk)>>, TRUE))
    /\ received' = received + 1
    /\ ended' = TRUE
    /\ failure' = "decode"
    /\ UNCHANGED <<state, builder, pending_chunks, objects, whole, scenario, pos, log, downstream,
                   done_sent, enabled, http, pair, turn, aggregator, error_log>>

NextStream ==
    \/ enabled /\ NextRelay
    \/ PlainRead
    \/ PlainEnd
    \/ UndecodableRead

\* With the flag off the scenario's text is not used
InitStream == Start(TRUE, Streaming) \/ (Start(FALSE, Streaming) /\ scenario = 1)

\* The relay under either value of the transform flag
SpecStream == InitStream /\ [][NextStream]_vars

\* ------------------------------------------------------------------------
\* The chat-completions request from its arrival on
\* ------------------------------------------------------------------------

streaming == <<state, builder, pending_chunks, objects, whole, scenario, pos, log, downstream,
               done_sent, received, enabled, aggregator, upstream, pair, turn>>

\* proxy_chat_completions on a request without "stream": the upstream
\* request is made inside forward_chat_completion.
RegularRequest ==
    /\ http.pc = "new"
    /\ \E outcome \in UpstreamOutcomes :
          /\ http' = Request("responded", FALSE, outcome.kind,
                             ProxyChatCompletions(ForwardChatCompletion(FALSE, outcome)))
          /\ error_log' = IF outcome.kind = "ok" THEN error_log
                          ELSE error_log \o <<Line("forward_chat_completion", NoChunk),
                                               Line("proxy_chat_completions", NoChunk)>>
    /\ UNCHANGED <<streaming, ended, failure>>

\* proxy_chat_completions on a request with "stream": it returns the
\* StreamingResponse around the generator, and the response starts.
StreamingRequest ==
    /\ http.pc = "new"
    /\ http' = Request("opening", TRUE, "none",
                       ProxyChatCompletions(ForwardChatCompletion(TRUE, NoException)))
    /\ UNCHANGED <<streaming, ended, failure, error_log>>

\* The first step of stream_generator: the upstream request.  An exception
\* leaves the generator after the response has started.
StreamOpen ==
    /\ http.pc = "opening"
    /\ \E outcome \in UpstreamOutcomes :
          IF UpstreamRaises(outcome).type = "none"
          THEN /\ http' = [http EXCEPT !.pc = "streaming", !.outcome = outcome.kind]
               /\ UNCHANGED <<ended, failure>>
          ELSE /\ http' = [http EXCEPT !.pc = "aborted", !.outcome = outcome.kind]
               /\ ended' = TRUE
               /\ failure' = outcome.kind
    /\ UNCHANGED <<streaming, error_log>>

NextRequest ==
    \/ RegularRequest
    \/ StreamingRequest
    \/ StreamOpen
    \/ http.pc = "streaming" /\ NextStream

InitRequest == Start(TRUE, NewRequest) \/ (Start(FALSE, NewRequest) /\ scenario = 1)

\* A chat-completions request from its arrival to the end of the response
SpecRequest == InitRequest /\ [][NextRequest]_vars

\* ------------------------------------------------------------------------
\* Two stream_generators with the transformer enabled, their steps
\* interleaved
\* ------------------------------------------------------------------------

\* The line that tells a generator that its upstream stream has ended
EndOfStream == Line("end", NoChunk)

\* The lines stream q may read next
PairLines(q) ==
    { Line("chunk", UpstreamChunk(Len(q.inputs) + 1,
                                  SubSeq(Scenarios[q.scenario].text, q.pos + 1, end),
                                  None, None)) :
        end \in {e \in Scenarios[q.scenario].cuts \cup {Len(Scenarios[q.scenario].text)} :
                    e > q.pos} }
    \cup { Line("chunk", chunk) : chunk \in OtherChunks(Len(q.inputs) + 1) }
    \cup { Line("done", NoChunk) }

\* The call a line makes on the transformer t of stream q
LineResult(q, t, line) ==
    IF line.kind = "chunk" THEN ProcessChunk(t, line.chunk)
    ELSE IF line.kind = "done" \/ (line.kind = "end" /\ ~q.done_sent) THEN FlushPending(t)
    ELSE Result(t, <<>>, FALSE, <<>>, FALSE)

\* The locals of stream q after a line whose call on the transformer gave res
LineWritten(q, res, line) ==
    [scenario |-> q.scenario,
     pos |-> IF line.kind = "chunk" /\ line.chunk.delta.reasoning_content # None
             THEN q.pos + Len(line.chunk.delta.reasoning_content)
             ELSE q.pos,
     downstream |-> q.downstream
                    \o Written(res.out, IF line.kind = "chunk" THEN "process" ELSE "flush")
                    \o (IF line.kind = "done" THEN <<Sentinel>> ELSE <<>>),
     done_sent |-> q.done_sent \/ line.kind = "done",
     ended |-> line.kind = "end",
     inputs |-> Append(q.inputs, line)]

\* The pair after request r has read a line whose call on its transformer
\* gave res
Served(p, r, line, res) ==
    [streams |-> [p.streams EXCEPT ![r] = LineWritten(@, res, line)],
     transformers |-> [p.transformers EXCEPT ![TransformerOf(r)] = res.t],
     aggregators |-> [p.aggregators EXCEPT ![AggregatorOf(r)] =
                         AggregatorProcessAll(@, res.out, 1)]]

\* One step of the generator of request r
ServeLine(p, r, line) ==
    Served(p, r, line, LineResult(p.streams[r], p.transformers[TransformerOf(r)], line))

\* One of the two generators reads a line
PairLine ==
    /\ \E r \in PairIds :
          /\ ~pair.streams[r].ended
          /\ Len(pair.streams[r].inputs) < MaxPairLines
          /\ \E line \in PairLines(pair.streams[r]) :
                pair' = ServeLine(pair, r, line)
    /\ UNCHANGED <<state, builder, pending_chunks, objects, whole, scenario, pos, log, downstream,
                   done_sent, ended, received, enabled, aggregator, error_log,
                   upstream, failure, http, turn>>

\* The upstream stream of one of the two generators ends
PairEnd ==
    /\ \E r \in PairIds :
          /\ ~pair.streams[r].ended
          /\ pair' = ServeLine(pair, r, EndOfStream)
    /\ UNCHANGED <<state, builder, pending_chunks, objects, whole, scenario, pos, log, downstream,
                   done_sent, ended, received, enabled, aggregator, error_log,
                   upstream, failure, http, turn>>

NextPair == PairLine \/ PairEnd

InitPair == Init /\ scenario = 1

\* Two streaming requests served at the same time
SpecPair == InitPair /\ [][NextPair]_vars

\* ------------------------------------------------------------------------
\* An aggregator fed with one turn, cut in every way
\* ------------------------------------------------------------------------

\* The piece of text f from where the turn stands to position to
Piece(f, to) == SubSeq(TurnTexts[f], turn.at[f] + 1, to)

\* The positions a chunk may take the turn to: it carries any subset of the
\* texts, and of each text it carries the next piece, which may be empty
TurnCuts ==
    [content : turn.at.content..Len(TurnTexts.content),
     reasoning_content : turn.at.reasoning_content..Len(TurnTexts.reasoning_content),
     name : turn.at.name..Len(TurnTexts.name),
     arguments : turn.at.arguments..Len(TurnTexts.arguments)]

\* process_chunk on the next delta chunk of the turn
FeedTurn ==
    /\ turn.chunks < MaxTurnChunks
    /\ \E to \in TurnCuts : \E has \in [{"content", "reasoning_content", "call"} -> BOOLEAN] :
          /\ ~has["content"] => to["content"] = turn.at["content"]
          /\ ~has["reasoning_content"] => to["reasoning_content"] = turn.at["reasoning_content"]
          /\ ~has["call"] => (to["name"] = turn.at["name"] /\ to["arguments"] = turn.at["arguments"])
          /\ turn' =
                [at |-> to,
                 chunks |-> turn.chunks + 1,
                 fragments |-> turn.fragments + (IF has["call"] THEN 1 ELSE 0),
                 aggregator |->
                    AggregatorProcessChunk(
                        turn.aggregator,
                        TurnChunk(turn.chunks + 1,
                                  has["content"], Piece("content", to["content"]),
                                  has["reasoning_content"],
                                  Piece("reasoning_content", to["reasoning_content"]),
                                  has["call"],
                                  ToolCallFragment(turn.fragments = 0,
                                                   Piece("name", to["name"]),
                                                   Piece("arguments", to["arguments"]))))]
    /\ UNCHANGED <<state, builder, pending_chunks, objects, whole, scenario, pos, log, downstream,
                   done_sent, ended, received, enabled, aggregator, error_log,
                   upstream, failure, http, pair>>

NextTurn == FeedTurn

InitTurn == Init /\ scenario = 1

\* One aggregator fed with the chunks of a turn
SpecTurn == InitTurn /\ [][NextTurn]_vars

\* Everything but the aggregator fed with whole chunks
others == <<state, builder, pending_chunks, objects, scenario, pos, log, downstream,
            done_sent, ended, received, enabled, aggregator, error_log,
            upstream, failure, http, pair, turn>>

\* process_chunk on one more whole chunk
FeedWhole(chunk) ==
    /\ Len(whole.chunks) < MaxWholeChunks
    /\ whole' = [aggregator |-> ProcessWholeChunk(whole.aggregator, chunk),
                 chunks |-> Append(whole.chunks, chunk)]
    /\ UNCHANGED others

FeedChoices == \E chunk \in ChoiceChunks : FeedWhole(chunk)

NextChoices == FeedChoices

FeedMetadata ==
    \E chunk \in MetadataChunks(Len(whole.chunks) + 1) : FeedWhole(chunk)

NextMetadata == FeedMetadata

\* One aggregator fed with chunks that carry metadata
SpecMetadata == InitTurn /\ [][NextMetadata]_vars

FeedFragments ==
    \E fragment \in Fragments(Len(whole.chunks) + 1) : FeedWhole(FragmentChunk(<<fragment>>))

NextFragments == FeedFragments

\* One aggregator fed with tool-call fragments of one choice
SpecFragments == InitTurn /\ [][NextFragments]_vars

\* One aggregator fed with chunks of several choices
SpecChoices == InitTurn /\ [][NextChoices]_vars

\* ------------------------------------------------------------------------
\* Reading the log
\* ------------------------------------------------------------------------

\* The concatenation of a sequence of texts
RECURSIVE Concat(_)
Concat(texts) == IF texts = <<>> THEN <<>> ELSE Head(texts) \o Concat(Tail(texts))

\* The chunks yielded by calls lo..hi, in order
Yielded(lo, hi) == Concat([k \in 1..(hi - lo + 1) |-> log[lo + k - 1].out])

IsToolCallChunk(c) == c.shape = "valid" /\ c.delta.tool_calls.tag = "list"
IsStartChunk(c) == IsToolCallChunk(c) /\ c.delta.tool_calls.calls[1].function.name # None
IsArgumentChunk(c) == IsToolCallChunk(c) /\ c.delta.tool_calls.calls[1].function.name = None

\* The arguments fragments carried by the argument chunks of outs, concatenated
ArgumentsOf(outs) ==
    Concat([k \in 1..Len(outs) |->
               IF IsArgumentChunk(outs[k])
               THEN outs[k].delta.tool_calls.calls[1].function.arguments
               ELSE <<>>])

\* Call i handed a non-empty text to the argument-emission step
IsFragment(i) == log[i].raw # <<>>

\* The call in which the header of the tool call of fragment i matched
HeaderCall(i) == CHOOSE j \in 1..i : log[j].header /\ \A k \in (j + 1)..i : ~log[k].header

\* The marker-stripped fragments of one tool call up to call i, concatenated:
\* the argument text consumed so far
ArgsFed(i) ==
    Concat([k \in 1..(i - HeaderCall(i) + 1) |->
               StripArgumentMarkers(log[HeaderCall(i) + k - 1].raw)])

\* The text is one JSON object
IsJsonObject(text) ==
    /\ JsonLoadsOk(text)
    /\ SkipWs(text, 1) <= Len(text)
    /\ text[SkipWs(text, 1)] = "{"

\* Fragment i is the one that consumes the closing brace of the object
ClosesObject(i) ==
    /\ IsFragment(i)
    /\ IsJsonObject(ArgsFed(i))
    /\ \A k \in HeaderCall(i)..(i - 1) : IsFragment(k) => ~IsJsonObject(ArgsFed(k))

\* ------------------------------------------------------------------------
\* C1  Completion detection
\* ------------------------------------------------------------------------

\* C1: whenever the argument fragments of a tool call, fed one per call, add
\* up to a valid JSON object, the tracker reports completion on the fragment
\* that consumes the closing brace and on no earlier fragment.
C1_CompletionDetection ==
    \A i \in 1..Len(log) :
        ClosesObject(i) =>
            /\ log[i].complete
            /\ \A k \in HeaderCall(i)..(i - 1) : ~log[k].complete

\* ------------------------------------------------------------------------
\* C2  Split invariance
\* ------------------------------------------------------------------------

\* The tool call a client reconstructs from a sequence of yielded chunks:
\* the names and ids announced by the start chunks and the concatenation of
\* the arguments fragments.
Reconstructed(outs) ==
    LET starts == SelectSeq(outs, IsStartChunk)
    IN [names |-> [k \in 1..Len(starts) |-> starts[k].delta.tool_calls.calls[1].function.name],
        ids |-> [k \in 1..Len(starts) |-> starts[k].delta.tool_calls.calls[1].id],
        arguments |-> ArgumentsOf(outs)]

\* What a fresh transformer yields for the whole text of the scenario fed as
\* one chunk
WholeTextOut ==
    ProcessChunk(NewTransformer,
                 UpstreamChunk(1, Scenarios[scenario].text, None, None)).out

\* The whole text has been fed, in one or more chunks, and nothing else
WholeTextFed ==
    /\ pos = Len(Scenarios[scenario].text)
    /\ \A i \in 1..Len(log) : log[i].op = "text"

\* C2: however the text is cut into chunks, the reconstructed tool call
\* (name, id, concatenated arguments) is the one obtained from feeding the
\* text as a single chunk.
C2_SplitInvariance ==
    WholeTextFed => Reconstructed(Yielded(1, Len(log))) = Reconstructed(WholeTextOut)

\* ------------------------------------------------------------------------
\* C3  Argument fidelity
\* ------------------------------------------------------------------------

\* The reasoning text of the chunk of call k as it was fed
RawReasoning(k) ==
    IF log[k].op # "flush" /\ IsValidChunk(log[k].chunk)
    THEN OrEmpty(log[k].chunk.delta.reasoning_content)
    ELSE <<>>

\* The text of call k went into the header buffer: the chunk was processed
\* in TOOL_CALL_BUILD, or in IDLE with "functions." in it.
FeedsHeader(k) ==
    /\ log[k].op # "flush"
    /\ IsValidChunk(log[k].chunk)
    /\ \/ log[k].pre.state = "TOOL_CALL_BUILD"
       \/ /\ log[k].pre.state = "IDLE"
          /\ (log[k].header \/ log[k].post.pending_chunks # <<>>)

\* The first call whose text is part of the header buffer matched in call j
HeaderFirstCall(j) ==
    Min({s \in 1..j : \A k \in s..j : FeedsHeader(k) \/ ~IsValidChunk(log[k].chunk)})

\* The original text in which the header matched in call j was looked for
HeaderSource(j) ==
    Concat([k \in 1..(j - HeaderFirstCall(j) + 1) |-> RawReasoning(HeaderFirstCall(j) + k - 1)])

\* The header as matched in call j
MatchedHeader(j) == ToolCallId(log[j].post.builder.tool_name, log[j].post.builder.tool_id)

\* The header stands in the original text as it was matched (no marker,
\* control character or chunk-edge blank inside it)
HeaderInSource(j) ==
    /\ log[j].post.builder.tool_name # <<>>
    /\ Contains(HeaderSource(j), MatchedHeader(j))

\* The original argument text of the tool call whose header matched in call
\* j, as far as it has arrived by call i: what follows the header in the
\* chunk of the match, then the reasoning text of the later chunks.
OriginalArguments(j, i) ==
    From(HeaderSource(j), Find(HeaderSource(j), MatchedHeader(j)) + Len(MatchedHeader(j)))
    \o Concat([k \in 1..(i - j) |-> RawReasoning(j + k)])

\* Calls j..i belong to one tool call: the header matched in j, and the
\* transformer stayed in ARGUMENT_BUILD until call i began.
OneToolCall(j, i) ==
    /\ log[j].header
    /\ \A k \in j..(i - 1) : log[k].post.state = "ARGUMENT_BUILD"
    /\ \A k \in (j + 1)..i : log[k].op # "flush"

\* C3: the arguments fragments emitted for a tool call, concatenated, are the
\* original argument text with only the five bracket tokens removed.
C3_ArgumentFidelity ==
    \A j \in 1..Len(log) : \A i \in j..Len(log) :
        (OneToolCall(j, i) /\ HeaderInSource(j)) =>
            ArgumentsOf(Yielded(j, i)) = StripArgumentMarkers(OriginalArguments(j, i))

\* ------------------------------------------------------------------------
\* C4  Loss-free flush
\* ------------------------------------------------------------------------

\* The chunks fed by calls lo..hi, in order (a flush feeds none)
Fed(lo, hi) ==
    Concat([k \in 1..(hi - lo + 1) |->
               IF log[lo + k - 1].op = "flush" THEN <<>> ELSE <<log[lo + k - 1].chunk>>])

\* a is a subsequence of b: its elements occur in b in the same order
RECURSIVE IsSubsequence(_, _)
IsSubsequence(a, b) ==
    IF a = <<>> THEN TRUE
    ELSE IF b = <<>> THEN FALSE
    ELSE IF Head(a) = Head(b) THEN IsSubsequence(Tail(a), Tail(b))
    ELSE IsSubsequence(a, Tail(b))

\* Call i is the first flush, made while a reconstruction is under way
FlushWhileBuilding(i) ==
    /\ log[i].op = "flush"
    /\ log[i].pre.state # "IDLE"
    /\ \A k \in 1..(i - 1) : log[k].op # "flush"

\* C4 as stated: when the stream ends in a building state, what process
\* yielded followed by what flush yields contains, in order, every chunk fed.
C4_LossFreeFlush ==
    \A i \in 1..Len(log) :
        FlushWhileBuilding(i) => IsSubsequence(Fed(1, i), Yielded(1, i))

\* The call that took the transformer out of IDLE for the reconstruction
\* that is under way when call i begins
LeftIdle(i) == CHOOSE s \in 1..(i - 1) :
    /\ log[s].pre.state = "IDLE"
    /\ \A k \in s..(i - 1) : log[k].post.state # "IDLE"

\* The chunk of call s holds "functions." once its markers are removed
HoldsHeaderText(s) ==
    Contains(StripMarkersAndDetect(RawReasoning(s)).cleaned, FunctionsDot)

\* The chunks fed since the reconstruction under way at call i began: from
\* the chunk in which "functions." was found, or from the chunk after the
\* marker-only chunk that started it.
FedSinceBuildBegan(i) ==
    Fed(IF HoldsHeaderText(LeftIdle(i)) THEN LeftIdle(i) ELSE LeftIdle(i) + 1, i - 1)

\* C4 amended: a flush made in a building state yields, unchanged and in
\* order, exactly the chunks fed since the reconstruction under way began.
C4_FlushReplaysCurrentBuild ==
    \A i \in 1..Len(log) :
        (log[i].op = "flush" /\ log[i].pre.state # "IDLE") =>
            log[i].out = FedSinceBuildBegan(i)

\* A flush in a building state that replays at least two chunks
C4_Witness ==
    \E i \in 1..Len(log) :
        /\ log[i].op = "flush"
        /\ log[i].pre.state # "IDLE"
        /\ Len(log[i].out) >= 2

\* ------------------------------------------------------------------------
\* C5  Pass-through invariance
\* ------------------------------------------------------------------------

\* The text holds no control-range character and no bracket token
NoMarkerIn(text) ==
    /\ \A k \in 1..Len(text) : text[k] \notin ControlChars
    /\ \A m \in 1..Len(Markers) : ~Contains(text, Markers[m])

\* Call i processes, in IDLE, a valid chunk without tool-call text
PlainChunkInIdle(i) ==
    /\ log[i].op # "flush"
    /\ log[i].pre.state = "IDLE"
    /\ IsValidChunk(log[i].chunk)
    /\ \/ Falsy(log[i].chunk.delta.reasoning_content)
       \/ /\ NoMarkerIn(log[i].chunk.delta.reasoning_content)
          /\ ~Contains(log[i].chunk.delta.reasoning_content, FunctionsDot)

\* C5: in IDLE a valid chunk without marker and without "functions." is
\* yielded as it is, alone, and state, buffer and pending queue stay as they
\* were.
C5_PassThrough ==
    \A i \in 1..Len(log) :
        PlainChunkInIdle(i) =>
            /\ log[i].out = <<log[i].chunk>>
            /\ log[i].post = log[i].pre

\* A chunk of reasoning text that ends in a blank passed through in IDLE
C5_Witness ==
    \E i \in 1..Len(log) :
        /\ PlainChunkInIdle(i)
        /\ log[i].chunk.delta.reasoning_content = Example1

\* ------------------------------------------------------------------------
\* C6  Worked example
\* ------------------------------------------------------------------------

ExampleChunks == <<Example1, Example2, Example3, Example4>>

\* The first k calls are process calls on the first k chunks of the example
ExampleFed(k) ==
    /\ Len(log) >= k
    /\ \A i \in 1..k :
          /\ log[i].op = "text"
          /\ log[i].chunk.delta.reasoning_content = ExampleChunks[i]

\* The tool-call chunk the example expects from the chunk of call i
ExampleToolChunk(i, name, arguments) ==
    [n |-> i, shape |-> "valid",
     delta |-> [role |-> None, content |-> None, reasoning_content |-> None,
                tool_calls |->
                    [tag |-> "list",
                     calls |-> <<[id |-> <<"f","u","n","c","t","i","o","n","s",".",
                                           "r","e","a","d","_","f","i","l","e",":","1">>,
                                  index |-> 0,
                                  type |-> "function",
                                  function |-> [name |-> name, arguments |-> arguments]]>>]],
     finish_reason |-> None]

\* What each of the four calls must yield
ExampleExpected ==
    << <<UpstreamChunk(1, Example1, None, None)>>,
       <<ExampleToolChunk(2, <<"r","e","a","d","_","f","i","l","e">>, <<>>),
         ExampleToolChunk(2, None, <<"{","\"","p","a","t","h","\"",":">>)>>,
       <<ExampleToolChunk(3, None, <<"\"","a",".","t","x","t","\"","}">>)>>,
       <<>> >>

\* C6: the four chunks of the worked example yield the first chunk
\* unchanged, the start chunk and the two argument chunks, nothing for the
\* end marker, and leave the transformer IDLE with an empty pending queue.
C6_WorkedExample ==
    /\ \A k \in 1..4 : ExampleFed(k) => log[k].out = ExampleExpected[k]
    /\ ExampleFed(4) =>
          /\ log[4].post.state = "IDLE"
          /\ log[4].post.pending_chunks = <<>>

\* The four chunks of the example have been processed
C6_Witness == ExampleFed(4)

\* ------------------------------------------------------------------------
\* C7  Invalid chunk during build
\* ------------------------------------------------------------------------

\* Call i processes an invalid chunk while a reconstruction is under way
InvalidDuringBuild(i) ==
    /\ log[i].op # "flush"
    /\ ~IsValidChunk(log[i].chunk)
    /\ log[i].pre.state \in {"TOOL_CALL_BUILD", "ARGUMENT_BUILD"}

\* Some call after call i yields the chunk of call i as it was fed
YieldedAfter(i, j) ==
    /\ j > i
    /\ \E k \in 1..Len(log[j].out) : log[j].out[k] = log[i].chunk

\* Call j is a flush and the transformer did not return to IDLE between
\* call i and call j
FlushBeforeReset(i, j) ==
    /\ j > i
    /\ log[j].op = "flush"
    /\ \A k \in i..(j - 1) : log[k].post.state # "IDLE"

\* C7: an invalid chunk processed in a building state yields nothing and
\* joins the pending queue; only a flush ever emits it, and it is emitted if
\* and only if a flush comes before the transformer resets to IDLE.
C7_InvalidChunkDuringBuild ==
    \A i \in 1..Len(log) :
        InvalidDuringBuild(i) =>
            /\ log[i].out = <<>>
            /\ log[i].post.pending_chunks = Append(log[i].pre.pending_chunks, log[i].chunk)
            /\ \A j \in 1..Len(log) : YieldedAfter(i, j) => log[j].op = "flush"
            /\ (\E j \in 1..Len(log) : YieldedAfter(i, j))
                  <=> (\E j \in 1..Len(log) : FlushBeforeReset(i, j))

\* An invalid chunk queued in a building state and later replayed by flush
C7_Witness ==
    \E i \in 1..Len(log) :
        /\ InvalidDuringBuild(i)
        /\ \E j \in 1..Len(log) : YieldedAfter(i, j)

\* ------------------------------------------------------------------------
\* C8  Terminal sentinel
\* ------------------------------------------------------------------------

\* Positions of the sentinel and of flush output in the downstream stream
Sentinels == {i \in 1..Len(downstream) : downstream[i].kind = "done"}
FlushWrites == {i \in 1..Len(downstream) : downstream[i].from = "flush"}

\* C8: whatever the upstream stream (ending with "data: [DONE]", ending
\* without it, or carrying it more than once), once the relay has finished
\* the downstream stream holds the sentinel exactly once, and every chunk
\* written from the transformer's flush comes before it.
C8_SentinelOnceAfterFlush ==
    ended => /\ Cardinality(Sentinels) = 1
             /\ \A i \in FlushWrites : \A j \in Sentinels : i < j

\* ------------------------------------------------------------------------
\* C9  No silent loss of payload
\* ------------------------------------------------------------------------

\* The chunk of call k carries a content delta or a finish_reason
CarriesPayload(k) ==
    /\ log[k].op # "flush"
    /\ IsValidChunk(log[k].chunk)
    /\ (~Falsy(log[k].chunk.delta.content) \/ ~Falsy(log[k].chunk.finish_reason))

\* Some chunk of outs carries the content and the finish_reason of chunk c
PayloadIn(c, outs) ==
    /\ Falsy(c.delta.content)
          \/ \E m \in 1..Len(outs) : outs[m].delta.content = c.delta.content
    /\ Falsy(c.finish_reason)
          \/ \E m \in 1..Len(outs) : outs[m].finish_reason = c.finish_reason

\* The chunk of call k was put on the pending queue
Queued(k) ==
    /\ log[k].op # "flush"
    /\ Len(log[k].post.pending_chunks) > 0
    /\ log[k].post.pending_chunks[Len(log[k].post.pending_chunks)] = log[k].chunk

\* C9: once the stream is ended by flush, every content delta and
\* finish_reason fed has been yielded in some chunk, and every chunk that was
\* queued has been emitted.
C9_NoSilentLoss ==
    \A i \in 1..Len(log) :
        log[i].op = "flush" =>
            \A k \in 1..(i - 1) :
                /\ CarriesPayload(k) => PayloadIn(log[k].chunk, Yielded(1, i))
                /\ (Queued(k) /\ ~IsValidChunk(log[k].chunk)) =>
                      \E j \in (k + 1)..i : YieldedAfter(k, j)

\* ------------------------------------------------------------------------
\* C10  Flush replay
\* ------------------------------------------------------------------------

\* C10: a flush with a non-empty pending queue yields exactly the queue, each
\* entry equal to the chunk as it was fed and in the order fed, and leaves a
\* transformer that is IDLE with empty queue, buffer and tracker as new.
C10_FlushReplay ==
    \A i \in 1..Len(log) :
        (log[i].op = "flush" /\ log[i].pre.pending_chunks # <<>>) =>
            /\ log[i].out = log[i].pre.pending_chunks
            /\ \A k \in 1..Len(log[i].out) :
                  /\ log[i].out[k].n \in 1..(i - 1)
                  /\ log[i].out[k] = log[log[i].out[k].n].chunk
                  /\ k > 1 => log[i].out[k - 1].n < log[i].out[k].n
            /\ log[i].post = NewTransformer

\* A flush that replays two chunks from ARGUMENT_BUILD with the tracker
\* inside an object
C10_Witness ==
    \E i \in 1..Len(log) :
        /\ log[i].op = "flush"
        /\ Len(log[i].pre.pending_chunks) >= 2
        /\ log[i].pre.state = "ARGUMENT_BUILD"
        /\ log[i].pre.builder.brace_depth > 0

\* ------------------------------------------------------------------------
\* C11  Flush idempotence
\* ------------------------------------------------------------------------

\* The transformer is IDLE with an empty pending queue
IdleAndEmpty(t) == t.state = "IDLE" /\ t.pending_chunks = <<>>

\* C11: a flush on a transformer that is IDLE with an empty pending queue
\* yields nothing and changes nothing; a flush that directly follows a flush
\* yields nothing.
C11_FlushIdempotence ==
    \A i \in 1..Len(log) :
        log[i].op = "flush" =>
            /\ IdleAndEmpty(log[i].pre) =>
                  (log[i].out = <<>> /\ log[i].post = log[i].pre)
            /\ (i > 1 /\ log[i - 1].op = "flush") => log[i].out = <<>>

\* A flush that replayed chunks from a building state, then a second flush
C11_Witness ==
    \E i \in 2..Len(log) :
        /\ log[i].op = "flush"
        /\ log[i - 1].op = "flush"
        /\ log[i - 1].out # <<>>
        /\ log[i - 1].pre.state # "IDLE"

\* ------------------------------------------------------------------------
\* C12  Reset invariant
\* ------------------------------------------------------------------------

\* C12: whenever the state is IDLE, the header buffer, tool name, tool id and
\* arguments buffer are empty, the tracker is at brace depth 0, outside any
\* string and without pending escape, and the pending queue is empty.
C12_ResetInvariant ==
    state = "IDLE" =>
        /\ builder.buffer = <<>>
        /\ builder.tool_name = <<>>
        /\ builder.tool_id = <<>>
        /\ builder.arguments_buffer = <<>>
        /\ builder.brace_depth = 0
        /\ ~builder.in_string
        /\ builder.string_char = "None"
        /\ ~builder.escaped
        /\ pending_chunks = <<>>

\* IDLE reached again from a building state that held a header buffer, and
\* from one that held a name, arguments, an advanced tracker and a queue
C12_Witness ==
    /\ state = "IDLE"
    /\ \E i \in 1..Len(log) : \E j \in 1..Len(log) :
          /\ log[i].post.state = "IDLE"
          /\ log[i].pre.state = "TOOL_CALL_BUILD"
          /\ log[i].pre.builder.buffer # <<>>
          /\ log[j].post.state = "IDLE"
          /\ log[j].pre.state = "ARGUMENT_BUILD"
          /\ log[j].pre.builder.brace_depth > 0
          /\ log[j].pre.pending_chunks # <<>>

\* ------------------------------------------------------------------------
\* C13  No exception on unexpected input
\* ------------------------------------------------------------------------

\* C13: process_chunk on a value that does not follow the chunk schema (a
\* non-object, an object without choices, with empty choices, with a
\* choices[0] that has no delta, or with a null delta) ends without an
\* exception in every state; in IDLE the value is forwarded unchanged and
\* nothing else happens, in a building state it is queued without output.
C13_NeverRaises ==
    \A i \in 1..Len(log) :
        log[i].op = "unexpected" =>
            /\ ~log[i].raised
            /\ log[i].pre.state = "IDLE" =>
                  (log[i].out = <<log[i].chunk>> /\ log[i].post = log[i].pre)
            /\ log[i].pre.state # "IDLE" =>
                  /\ log[i].out = <<>>
                  /\ log[i].post = [log[i].pre EXCEPT
                                       !.pending_chunks = Append(@, log[i].chunk)]

\* ------------------------------------------------------------------------
\* C14  Malformed upstream line
\* ------------------------------------------------------------------------

\* The lines stream_generator has received, in order
ReceivedLines == Concat([i \in 1..Len(upstream) |-> upstream[i].lines])

IsMalformed(line) == line.kind = "malformed"

\* C14: with the transformer enabled, a "data: " line whose payload is no
\* JSON is reported through the error log and skipped: nothing derived from
\* it is written downstream, and the stream goes on.
C14_MalformedLineSkipped ==
    /\ error_log = SelectSeq(ReceivedLines, IsMalformed)
    /\ \A i \in 1..Len(downstream) : downstream[i].kind # "line"

\* ------------------------------------------------------------------------
\* C15  Upstream failure classification
\* ------------------------------------------------------------------------

\* C15: once a chat-completions request (streaming or not) has failed on an
\* upstream timeout the caller has been answered with status 504, and once it
\* has failed on an upstream connection failure with status 502; the generic
\* status 500 is not used for either.
C15_FailureClassified ==
    http.pc \in {"responded", "aborted"} =>
        /\ http.outcome = "timeout" => http.status_code = 504
        /\ http.outcome = "connect_error" => http.status_code = 502

\* ------------------------------------------------------------------------
\* C16  Transform disabled
\* ------------------------------------------------------------------------

IsPayload(line) == line.kind = "chunk"

\* The parsed payloads of the lines received, in order
ReceivedPayloads ==
    LET lines == SelectSeq(ReceivedLines, IsPayload)
    IN [i \in 1..Len(lines) |-> lines[i].chunk]

\* C16: with the transform flag off, what has been written downstream is the
\* sequence of network reads taken from upstream, unmodified and in order,
\* and the aggregator has been fed each parseable payload once.
C16_PlainPassThrough ==
    ~enabled =>
        /\ [i \in 1..Len(downstream) |-> downstream[i].read] = upstream
        /\ aggregator = AggregatorProcessAll(NewAggregator, ReceivedPayloads, 1)

\* ------------------------------------------------------------------------
\* C17  Request isolation
\* ------------------------------------------------------------------------

\* The pair after request r has read the lines from the k-th on, one by one
RECURSIVE ServeAll(_, _, _, _)
ServeAll(p, r, lines, k) ==
    IF k > Len(lines) THEN p
    ELSE ServeAll(ServeLine(p, r, lines[k]), r, lines, k + 1)

\* Request r served alone on the lines it has read
Alone(r) == ServeAll(NewPair, r, pair.streams[r].inputs, 1)

\* What request r has of its own in the pair p: what it has written
\* downstream, its aggregated response and the state of its transformer
Outcome(p, r) ==
    [downstream |-> p.streams[r].downstream,
     response |-> GetFinalResponse(p.aggregators[AggregatorOf(r)]),
     transformer |-> p.transformers[TransformerOf(r)]]

\* C17: with the steps of two streaming requests interleaved in any order,
\* each request has written downstream and aggregated what it writes and
\* aggregates when it is served alone on the same lines.
C17_RequestIsolation ==
    \A r \in PairIds : Outcome(pair, r) = Outcome(Alone(r), r)

\* Both requests are inside a tool call at the same time, each having
\* written a tool-call chunk of its own
C17_Witness ==
    \A r \in PairIds :
        /\ pair.transformers[TransformerOf(r)].state # "IDLE"
        /\ \E i \in 1..Len(pair.streams[r].downstream) :
              pair.streams[r].downstream[i].chunk.delta.tool_calls.tag = "list"

\* ------------------------------------------------------------------------
\* C19  Aggregation is independent of chunking
\* ------------------------------------------------------------------------

\* Every text of the turn has been sent to its end
TurnComplete == \A f \in TurnFields : turn.at[f] = Len(TurnTexts[f])

\* The message of the aggregator's final response
TurnMessage == GetFinalResponse(turn.aggregator).choices[1].message

\* C19: however the turn's content, reasoning and tool-call name and
\* arguments are cut into delta chunks, the final response of the aggregator
\* holds the whole content, the whole reasoning text and one tool call with
\* the whole name and the whole arguments.
C19_ChunkingIndependent ==
    TurnComplete =>
        /\ TurnMessage.content = TurnTexts.content
        /\ TurnMessage.reasoning_content = TurnTexts.reasoning_content
        /\ TurnMessage.tool_calls =
              <<[id |-> ToolCallId(TurnTexts.name, <<"0">>),
                 index |-> 0,
                 type |-> "function",
                 function |-> [name |-> TurnTexts.name,
                               arguments |-> TurnTexts.arguments]]>>

\* The turn is complete after four chunks, three of them with a fragment of
\* the tool call
C19_Witness ==
    /\ TurnComplete
    /\ turn.chunks = MaxTurnChunks
    /\ turn.fragments >= 3

\* ------------------------------------------------------------------------
\* C20  The Completeness Tracker is resumable
\* ------------------------------------------------------------------------

\* The persistent fields of the tracker
TrackerFields(b) ==
    [brace_depth |-> b.brace_depth, in_string |-> b.in_string,
     string_char |-> b.string_char, escaped |-> b.escaped]

\* C20: while a tool call's arguments are being collected, the tracker
\* fields after the fragments consumed so far, one per call, are those of a
\* fresh tracker that has consumed their concatenation in a single pass.
C20_TrackerResumable ==
    \A i \in 1..Len(log) :
        (log[i].op = "text" /\ log[i].post.state = "ARGUMENT_BUILD") =>
            TrackerFields(log[i].post.builder)
                = TrackerFields(TryParseJson(NewBuilder,
                                             log[i].post.builder.arguments_buffer).builder)

\* ------------------------------------------------------------------------
\* C21  End markers are authoritative
\* ------------------------------------------------------------------------

\* The text holds one of the two end markers
EndMarkerIn(text) == Contains(text, CallEnd) \/ Contains(text, SectionEnd)

\* Call i processed a chunk in ARGUMENT_BUILD whose reasoning text holds an
\* end marker
EndMarkerInFragment(i) ==
    /\ log[i].op = "text"
    /\ log[i].pre.state = "ARGUMENT_BUILD"
    /\ EndMarkerIn(RawReasoning(i))

\* The header matched in call i, and the original text holds an end marker
\* after it
EndMarkerAfterHeader(i) ==
    /\ log[i].op = "text"
    /\ log[i].header
    /\ HeaderInSource(i)
    /\ EndMarkerIn(OriginalArguments(i, i))

\* C21: a chunk whose original text holds an end marker, in ARGUMENT_BUILD
\* or after the header it completes, leaves the transformer in IDLE, whether
\* or not the arguments are complete JSON.
C21_EndMarkerResets ==
    \A i \in 1..Len(log) :
        (EndMarkerInFragment(i) \/ EndMarkerAfterHeader(i)) => log[i].post.state = "IDLE"

\* ------------------------------------------------------------------------
\* C22  Start-before-arguments ordering
\* ------------------------------------------------------------------------

\* The tool-call fragment a synthetic chunk carries
FragmentOf(c) == c.delta.tool_calls.calls[1]

\* The places (call, position in its output) of the start chunks yielded by
\* calls lo..hi
StartChunksIn(lo, hi) ==
    { p \in (lo..hi) \X (1..2) :
        p[2] <= Len(log[p[1]].out) /\ IsStartChunk(log[p[1]].out[p[2]]) }

\* The k-th chunk yielded by call i is the start chunk of a tool call: id
\* functions.<name>:<id>, index 0, the name, empty arguments
AnnouncesToolCall(i, k) ==
    /\ IsStartChunk(log[i].out[k])
    /\ FragmentOf(log[i].out[k]).index = 0
    /\ FragmentOf(log[i].out[k]).type = "function"
    /\ FragmentOf(log[i].out[k]).function.arguments = <<>>
    /\ Find(FragmentOf(log[i].out[k]).id,
            ToolCallId(FragmentOf(log[i].out[k]).function.name, <<>>)) = 1
    /\ log[i].post.state = "ARGUMENT_BUILD" =>
          /\ FragmentOf(log[i].out[k]).id = MatchedHeader(i)
          /\ FragmentOf(log[i].out[k]).function.name = log[i].post.builder.tool_name

\* Call i matched the header: it yields the start chunk before any argument
\* chunk, clears the header buffer and goes to ARGUMENT_BUILD (and on to
\* IDLE only if the text after the header ends the tool call)
HeaderCallAnnounces(i) ==
    /\ log[i].pre.state # "ARGUMENT_BUILD"
    /\ \E k \in 1..Len(log[i].out) :
          /\ AnnouncesToolCall(i, k)
          /\ \A m \in 1..(k - 1) : ~IsToolCallChunk(log[i].out[m])
    /\ log[i].post.builder.buffer = <<>>
    /\ \/ log[i].post.state = "ARGUMENT_BUILD"
       \/ log[i].post.state = "IDLE" /\ log[i].raw # <<>>

\* The k-th chunk yielded by call i, an argument chunk, comes after exactly
\* one start chunk since the transformer was last IDLE, which has its id
ArgumentChunkAnnounced(i, k) ==
    /\ \E j \in 1..i : log[j].header
    /\ \A m \in HeaderCall(i)..(i - 1) : log[m].post.state = "ARGUMENT_BUILD"
    /\ Cardinality(StartChunksIn(HeaderCall(i), i)) = 1
    /\ \A p \in StartChunksIn(HeaderCall(i), i) :
          /\ p[1] = HeaderCall(i)
          /\ p[1] = i => p[2] < k
          /\ FragmentOf(log[p[1]].out[p[2]]).id = FragmentOf(log[i].out[k]).id

\* C22: every argument chunk is preceded, since the last reset to IDLE, by
\* exactly one start chunk with the same id, index 0, the tool name and empty
\* arguments, and the start chunk is yielded by the call in which the header
\* matches, which clears the header buffer and enters ARGUMENT_BUILD.
C22_StartBeforeArguments ==
    \A i \in 1..Len(log) :
        /\ log[i].header => HeaderCallAnnounces(i)
        /\ \A k \in 1..Len(log[i].out) :
              IsArgumentChunk(log[i].out[k]) => ArgumentChunkAnnounced(i, k)

\* An argument chunk yielded two calls after the call that matched the
\* header, whose text was spread over two chunks
C22_Witness ==
    \E i \in 3..Len(log) :
        /\ log[i - 2].header
        /\ log[i - 2].pre.state = "TOOL_CALL_BUILD"
        /\ log[i - 1].post.state = "ARGUMENT_BUILD"
        /\ log[i].out # <<>>
        /\ IsArgumentChunk(log[i].out[1])

\* ------------------------------------------------------------------------
\* C23  IDLE, marker without header
\* ------------------------------------------------------------------------

\* The marker-stripped and trimmed reasoning text of the chunk of call i
CleanedReasoning(i) == StripMarkersAndDetect(RawReasoning(i)).cleaned

\* Call i processes, in IDLE, a valid chunk whose reasoning text holds a
\* marker and whose cleaned text does not hold "functions."
MarkerWithoutHeader(i) ==
    /\ log[i].op # "flush"
    /\ log[i].pre.state = "IDLE"
    /\ IsValidChunk(log[i].chunk)
    /\ ~Falsy(log[i].chunk.delta.reasoning_content)
    /\ ~NoMarkerIn(RawReasoning(i))
    /\ ~Contains(CleanedReasoning(i), FunctionsDot)

\* C23: such a call yields exactly one chunk, the input with the cleaned
\* text as reasoning_content and tool_calls cleared, and ends in
\* TOOL_CALL_BUILD with an empty header buffer and an empty pending queue.
C23_MarkerWithoutHeader ==
    \A i \in 1..Len(log) :
        MarkerWithoutHeader(i) =>
            /\ Len(log[i].out) = 1
            /\ log[i].out[1].delta.reasoning_content = CleanedReasoning(i)
            /\ log[i].out[1].delta.tool_calls.tag \in {"absent", "none"}
            /\ log[i].out[1] =
                  [log[i].chunk EXCEPT !.delta.reasoning_content = CleanedReasoning(i),
                                       !.delta.tool_calls = log[i].out[1].delta.tool_calls]
            /\ log[i].post.state = "TOOL_CALL_BUILD"
            /\ log[i].post.builder.buffer = <<>>
            /\ log[i].post.pending_chunks = <<>>

\* Such a chunk with text left after the marker is stripped, and one with
\* nothing left
C23_Witness ==
    \E i \in 1..Len(log) : \E j \in 1..Len(log) :
        /\ MarkerWithoutHeader(i)
        /\ CleanedReasoning(i) # <<>>
        /\ MarkerWithoutHeader(j)
        /\ CleanedReasoning(j) = <<>>

\* ------------------------------------------------------------------------
\* C24  IDLE, header present
\* ------------------------------------------------------------------------

\* Call i processes, in IDLE, a valid chunk whose cleaned reasoning text
\* holds "functions."
HeaderPresent(i, cleaned) ==
    /\ log[i].op # "flush"
    /\ log[i].pre.state = "IDLE"
    /\ IsValidChunk(log[i].chunk)
    /\ Contains(cleaned, FunctionsDot)

\* The cleaned text before and from the first "functions."
PrefixText(cleaned) == SubSeq(cleaned, 1, Find(cleaned, FunctionsDot) - 1)
HeaderText(cleaned) == From(cleaned, Find(cleaned, FunctionsDot))

IsReasoningChunk(c) == ~IsToolCallChunk(c)

\* The chunk that forwards the prefix of call i
PrefixChunk(i, prefix) ==
    [log[i].chunk EXCEPT !.delta.reasoning_content = prefix,
                         !.delta.tool_calls = IF @.tag = "absent" THEN @ ELSE NullToolCalls]

\* What call i did with the prefix, the header and the chunk
SplitsHeader(i, prefix, header, match) ==
    /\ SelectSeq(log[i].out, IsReasoningChunk)
          = IF Strip(prefix) # <<>> THEN <<PrefixChunk(i, prefix)>> ELSE <<>>
    /\ Strip(prefix) # <<>> => log[i].out[1] = PrefixChunk(i, prefix)
    /\ log[i].header = match.found
    /\ ~log[i].header =>
          /\ log[i].post.state = "TOOL_CALL_BUILD"
          /\ log[i].post.builder.buffer = header
          /\ log[i].post.pending_chunks = <<log[i].chunk>>
          /\ SelectSeq(log[i].out, IsToolCallChunk) = <<>>
    /\ log[i].header =>
          /\ log[i].raw = From(header, match.end)
          /\ log[i].post.state \in {"ARGUMENT_BUILD", "IDLE"}
          /\ log[i].post.state = "ARGUMENT_BUILD" =>
                log[i].post.pending_chunks = <<log[i].chunk>>

\* C24: the prefix is forwarded as a reasoning chunk iff it is non-empty
\* after trimming; the text from "functions." on is the header buffer and
\* the original chunk the sole entry of the pending queue; the header is
\* matched in the same call if the header text holds it.
C24_HeaderPresent ==
    \A i \in 1..Len(log) :
        LET cleaned == CleanedReasoning(i)
            header == HeaderText(cleaned)
        IN  HeaderPresent(i, cleaned) =>
                SplitsHeader(i, PrefixText(cleaned), header,
                             function_pattern_search(header))

\* A chunk with a prefix before a whole header: the prefix is forwarded,
\* the header matched in the same call and the chunk kept
C24_Witness ==
    \E i \in 1..Len(log) :
        LET cleaned == CleanedReasoning(i)
        IN  /\ log[i].header
            /\ HeaderPresent(i, cleaned)
            /\ Strip(PrefixText(cleaned)) # <<>>
            /\ log[i].post.pending_chunks = <<log[i].chunk>>

\* ------------------------------------------------------------------------
\* C25  TOOL_CALL_BUILD withholds output
\* ------------------------------------------------------------------------

\* Call i processes a valid chunk in TOOL_CALL_BUILD
ValidDuringHeaderBuild(i) ==
    /\ log[i].op # "flush"
    /\ log[i].pre.state = "TOOL_CALL_BUILD"
    /\ IsValidChunk(log[i].chunk)

\* What call i did with the header buffer as it is after the append
BuildsHeader(i, buffer, match) ==
    /\ log[i].header = match.found
    /\ ~log[i].header =>
          /\ log[i].out = <<>>
          /\ log[i].post.state = "TOOL_CALL_BUILD"
          /\ log[i].post.builder.buffer = buffer
          /\ log[i].post.pending_chunks = Append(log[i].pre.pending_chunks, log[i].chunk)
    /\ log[i].header =>
          /\ log[i].raw = From(buffer, match.end)
          /\ log[i].post.state \in {"ARGUMENT_BUILD", "IDLE"}
          /\ log[i].post.state = "ARGUMENT_BUILD" =>
                log[i].post.pending_chunks
                    = Append(log[i].pre.pending_chunks, log[i].chunk)

\* C25: a valid chunk processed in TOOL_CALL_BUILD has its marker-stripped
\* reasoning text appended to the header buffer and joins the pending queue;
\* the call yields nothing unless the buffer now holds a header; the state
\* leaves TOOL_CALL_BUILD only by a header match or by flush.
C25_HeaderBuildWithholds ==
    \A i \in 1..Len(log) :
        /\ ValidDuringHeaderBuild(i) =>
              LET buffer == log[i].pre.builder.buffer \o CleanedReasoning(i)
              IN  BuildsHeader(i, buffer, function_pattern_search(buffer))
        /\ (log[i].pre.state = "TOOL_CALL_BUILD" /\ log[i].post.state # "TOOL_CALL_BUILD")
              => (log[i].header \/ log[i].op = "flush")

\* A chunk carrying only content and a finish_reason is withheld while the
\* header is incomplete, and a later chunk completes the header.
C25_Witness ==
    \E i \in 1..Len(log) : \E j \in 1..Len(log) :
        /\ i < j
        /\ ValidDuringHeaderBuild(i)
        /\ Falsy(log[i].chunk.delta.reasoning_content)
        /\ log[i].out = <<>>
        /\ ValidDuringHeaderBuild(j)
        /\ log[j].header

\* ------------------------------------------------------------------------
\* C26  Inputs are never mutated
\* ------------------------------------------------------------------------

\* The objects carry the values the calls computed: what each call yielded
\* and what the pending queue holds.
ObjectsAgree ==
    /\ Len(objects.input) = Len(log)
    /\ [k \in 1..Len(objects.pending) |-> objects.cells[objects.pending[k].ref]]
          = pending_chunks
    /\ \A i \in 1..Len(log) :
          \/ log[i].raised
          \/ i < Len(log)
          \/ [k \in 1..Len(objects.yielded[i]) |-> objects.cells[objects.yielded[i][k]]]
                = log[i].out

\* C26: the chunk passed to a process call has, after the call and after
\* every later call, the value it was passed with, and every chunk in the
\* pending queue has the value of the chunk it was taken from, as fed.
C26_InputsNotMutated ==
    /\ \A i \in 1..Len(log) :
          log[i].op # "flush" => objects.cells[objects.input[i]] = log[i].chunk
    /\ \A k \in 1..Len(objects.pending) :
          objects.cells[objects.pending[k].ref] = log[objects.pending[k].call].chunk

\* A queued chunk from which a tool-call chunk was built, with a later
\* process call that built another one
C26_Witness ==
    \E k \in 1..Len(objects.pending) : \E j \in 1..Len(log) :
        /\ j > objects.pending[k].call
        /\ SelectSeq(log[objects.pending[k].call].out, IsToolCallChunk) # <<>>
        /\ SelectSeq(log[j].out, IsToolCallChunk) # <<>>

\* ------------------------------------------------------------------------
\* C27  Aggregator slots are per choice index
\* ------------------------------------------------------------------------

\* The content the choices with this index carry in chunks, in order
RECURSIVE ContentOfIndex(_, _, _)
ContentOfIndex(chunks, index, k) ==
    IF k > Len(chunks) THEN <<>>
    ELSE Concat([c \in 1..Len(chunks[k].choices) |->
                    IF chunks[k].choices[c].index = index
                    THEN OrEmpty(chunks[k].choices[c].delta.content)
                    ELSE <<>>])
         \o ContentOfIndex(chunks, index, k + 1)

\* The final response has exactly one choice with this index, holding content
HoldsUnderIndex(response, index, content) ==
    /\ Cardinality({i \in 1..Len(response.choices) :
                       response.choices[i].index = index}) = 1
    /\ \A i \in 1..Len(response.choices) :
          response.choices[i].index = index
              => response.choices[i].message.content = content

\* C27: every choice index seen in any chunk has its slot, and the slot holds
\* what the choices with that index carried, in order.
C27_SlotsPerChoiceIndex ==
    \A index \in {0, 1} :
        (\E k \in 1..Len(whole.chunks) : \E c \in 1..Len(whole.chunks[k].choices) :
            whole.chunks[k].choices[c].index = index)
        => HoldsUnderIndex(WholeFinalResponse(whole.aggregator), index,
                           ContentOfIndex(whole.chunks, index, 1))

\* ------------------------------------------------------------------------
\* C28  Aggregator tool-call merge
\* ------------------------------------------------------------------------

\* The tool-call fragments fed, in order
FragmentsFed ==
    [k \in 1..Len(whole.chunks) |-> whole.chunks[k].choices[1].delta.tool_calls.calls[1]]

\* The accumulated tool calls of the one choice
ToolCallsAccumulated ==
    IF whole.aggregator.choices = <<>> THEN <<>>
    ELSE WholeFinalResponse(whole.aggregator).choices[1].message.tool_calls

\* The places of the fragments with this index, and the first of them
PlacesOf(index) == {k \in 1..Len(FragmentsFed) : FragmentsFed[k].index = index}
FirstPlaces == {k \in 1..Len(FragmentsFed) : k = Min(PlacesOf(FragmentsFed[k].index))}

\* The value of key in the function of fragment (Absent without it)
Carried(fragment, key) ==
    IF "function" \in DOMAIN fragment THEN fragment.function[key] ELSE Absent

\* The values of key in the fragments with this index from place from on,
\* concatenated in arrival order, absent and null being empty
Concatenated(index, key, from) ==
    Concat([k \in 1..Len(FragmentsFed) |->
               IF k >= from /\ FragmentsFed[k].index = index
               THEN OrEmpty(Carried(FragmentsFed[k], key))
               ELSE <<>>])

\* One accumulated entry per distinct index, in order of first appearance
OneEntryPerIndex ==
    /\ Len(ToolCallsAccumulated) = Cardinality(FirstPlaces)
    /\ \A e \in 1..Len(ToolCallsAccumulated) :
          /\ ToolCallsAccumulated[e].index \in {FragmentsFed[k].index : k \in FirstPlaces}
          /\ Cardinality({k \in FirstPlaces :
                 k <= Min(PlacesOf(ToolCallsAccumulated[e].index))}) = e

\* C28 as stated: one entry per distinct index in order of first appearance,
\* each holding, for name and arguments, the concatenation of what the
\* fragments with its index carried.
C28_ToolCallMerge ==
    /\ OneEntryPerIndex
    /\ \A e \in 1..Len(ToolCallsAccumulated) : \A key \in {"name", "arguments"} :
          Carried(ToolCallsAccumulated[e], key)
              = Concatenated(ToolCallsAccumulated[e].index, key, 1)

\* A later fragment with this index, after place first, carries key
CarriedLater(index, key, first) ==
    \E k \in PlacesOf(index) : k > first /\ Carried(FragmentsFed[k], key) # Absent

\* A later fragment with this index, after place first, has a function
FunctionLater(index, first) ==
    \E k \in PlacesOf(index) : k > first /\ "function" \in DOMAIN FragmentsFed[k]

\* What the entry of a fragment first seen at place first holds under key
Merged(entry, key, first) ==
    IF CarriedLater(entry.index, key, first)
    THEN Carried(entry, key) = Concatenated(entry.index, key, first)
    ELSE IF "function" \in DOMAIN FragmentsFed[first]
    THEN Carried(entry, key) = Carried(FragmentsFed[first], key)
    ELSE IF FunctionLater(entry.index, first)
    THEN Carried(entry, key) = <<>>
    ELSE "function" \notin DOMAIN entry

\* C28, amended: one entry per distinct index in order of first appearance:
\* the first fragment with that index, onto whose name and arguments the
\* values of the later fragments are concatenated, each field on its own and
\* only when a later fragment carries it; a field no later fragment carries
\* stays as the first fragment gave it, null or absent.
C28_ToolCallMergeAmended ==
    /\ OneEntryPerIndex
    /\ \A e \in 1..Len(ToolCallsAccumulated) : \A key \in {"name", "arguments"} :
          Merged(ToolCallsAccumulated[e], key, Min(PlacesOf(ToolCallsAccumulated[e].index)))

\* Two indexes, the second seen between two fragments of the first, the
\* first one's name being null in its first fragment and carried by no other
C28_Witness ==
    /\ Len(FragmentsFed) = 3
    /\ FragmentsFed[1].index = FragmentsFed[3].index
    /\ FragmentsFed[2].index # FragmentsFed[1].index
    /\ Carried(FragmentsFed[1], "name") = None
    /\ Carried(FragmentsFed[3], "name") = Absent
    /\ Carried(FragmentsFed[3], "arguments") \notin {Absent, None}
    /\ Len(ToolCallsAccumulated) = 2
    /\ ToolCallsAccumulated[1].function.name = None

\* ------------------------------------------------------------------------
\* C29  Aggregator metadata
\* ------------------------------------------------------------------------

\* The value of this top-level key in the most recent chunk that carries
\* it, None if no chunk does
LastCarried(key) ==
    LET carrying == {k \in 1..Len(whole.chunks) : whole.chunks[k][key] # Absent}
    IN IF carrying = {} THEN None
       ELSE whole.chunks[CHOOSE k \in carrying : \A j \in carrying : j <= k][key]

\* The same for a key of the chunks' one choice
LastCarriedByChoice(key) ==
    LET carrying == {k \in 1..Len(whole.chunks) :
                        /\ whole.chunks[k].has_choices
                        /\ whole.chunks[k].choices[1][key] # Absent}
    IN IF carrying = {} THEN None
       ELSE whole.chunks[CHOOSE k \in carrying : \A j \in carrying : j <= k].choices[1][key]

\* C29: the final response's usage, system_fingerprint and model are those
\* of the most recent chunk that carried them, a chunk without choices
\* included; the choice's finish_reason and logprobs are those of the most
\* recent chunk that carried them.
C29_MetadataLastWins ==
    ~WholeFinalResponse(whole.aggregator).none =>
        /\ WholeFinalResponse(whole.aggregator).usage = LastCarried("usage")
        /\ WholeFinalResponse(whole.aggregator).system_fingerprint
              = LastCarried("system_fingerprint")
        /\ WholeFinalResponse(whole.aggregator).model
              = IF LastCarried("model") = None THEN <<"u","n","k","n","o","w","n">>
                ELSE LastCarried("model")
        /\ WholeFinalResponse(whole.aggregator).choices[1].finish_reason
              = LastCarriedByChoice("finish_reason")
        /\ WholeFinalResponse(whole.aggregator).choices[1].logprobs
              = LastCarriedByChoice("logprobs")

\* ------------------------------------------------------------------------
\* C30  The relay feeds the aggregator what the client receives
\* ------------------------------------------------------------------------

IsWrittenChunk(item) == item.kind = "chunk"

\* The JSON chunks written downstream, in order
WrittenChunks ==
    LET items == SelectSeq(downstream, IsWrittenChunk)
    IN [i \in 1..Len(items) |-> items[i].chunk]

\* The chunk of a line received was withheld or replaced: it has not been
\* written
NotWritten(line) ==
    /\ line.kind = "chunk"
    /\ \A i \in 1..Len(WrittenChunks) : WrittenChunks[i] # line.chunk

\* C30: with the transformer enabled the aggregator holds the chunks
\* written downstream, the outputs of process and of flush, folded once each
\* in the order written, and nothing else.
C30_AggregatorFedWhatIsWritten ==
    enabled =>
        /\ aggregator = AggregatorProcessAll(NewAggregator, WrittenChunks, 1)
        /\ \A i \in 1..Len(downstream) :
              downstream[i].kind = "chunk" => downstream[i].from \in {"process", "flush"}

\* A tool-call chunk has been written for a chunk received that was not,
\* a queued chunk has been replayed by a flush, and there is a response
C30_Witness ==
    /\ enabled
    /\ \E i \in 1..Len(downstream) :
          /\ downstream[i].kind = "chunk"
          /\ downstream[i].from = "process"
          /\ downstream[i].chunk.delta.tool_calls.tag = "list"
    /\ \E i \in 1..Len(downstream) :
          downstream[i].kind = "chunk" /\ downstream[i].from = "flush"
    /\ \E k \in 1..Len(ReceivedLines) : NotWritten(ReceivedLines[k])
    /\ ~GetFinalResponse(aggregator).none

\* ------------------------------------------------------------------------
\* C36  State-shape invariants between calls
\* ------------------------------------------------------------------------

\* The shape of the transformer t between two calls
StateShape(t) ==
    /\ t.state = "ARGUMENT_BUILD" =>
          /\ t.builder.tool_name # <<>>
          /\ t.builder.tool_id # <<>>
          /\ t.builder.buffer = <<>>
    /\ t.state = "TOOL_CALL_BUILD" =>
          /\ t.builder.tool_name = <<>>
          /\ t.builder.tool_id = <<>>
          /\ t.builder.arguments_buffer = <<>>
          /\ TrackerFields(t.builder) = TrackerFields(NewBuilder)
    /\ t.builder.brace_depth >= 0

\* C36: between calls, ARGUMENT_BUILD has a tool name and a tool id and an
\* empty header buffer, TOOL_CALL_BUILD has no tool name, no tool id, no
\* arguments and a tracker at its initial values, and the brace depth is
\* never negative.
C36_StateShape == StateShape(Transformer)

\* An ARGUMENT_BUILD state inside an object, reached through a
\* TOOL_CALL_BUILD state whose header buffer was not empty
C36_Witness ==
    /\ state = "ARGUMENT_BUILD"
    /\ builder.brace_depth > 0
    /\ builder.arguments_buffer # <<>>
    /\ \E i \in 1..Len(log) :
          log[i].post.state = "TOOL_CALL_BUILD" /\ log[i].post.builder.buffer # <<>>

\* ------------------------------------------------------------------------
\* C35  Trailing end marker
\* ------------------------------------------------------------------------

\* By the end of call i the last tool call has been emitted whole: its start
\* chunk, and argument chunks that add up to one JSON object, in calls that
\* all processed text.
CallEmitted(i) ==
    /\ \E j \in 1..i : log[j].header
    /\ LET h == HeaderCall(i)
           outs == Yielded(h, i)
       IN /\ \A k \in h..i : log[k].op = "text"
          /\ \E c \in 1..Len(outs) : IsStartChunk(outs[c])
          /\ IsJsonObject(ArgumentsOf(outs))

\* Call i processes a chunk whose reasoning_content is the call end marker
\* alone, right after a tool call has been emitted whole
TrailingEndMarker(i) ==
    /\ i > 1
    /\ log[i].op = "text"
    /\ RawReasoning(i) = CallEnd
    /\ CallEmitted(i - 1)

\* C35: a chunk that holds only the call end marker, following a tool call
\* whose header and complete arguments have been emitted, yields nothing
\* and leaves the transformer IDLE with an empty pending queue.
C35_TrailingEndMarkerSwallowed ==
    \A i \in 1..Len(log) :
        TrailingEndMarker(i) =>
            /\ log[i].out = <<>>
            /\ log[i].post.state = "IDLE"
            /\ log[i].post.pending_chunks = <<>>

\* The same for the tool calls whose completion was not detected before the
\* marker arrives (the transformer is still in ARGUMENT_BUILD)
C35_SwallowedWhileBuilding ==
    \A i \in 1..Len(log) :
        (TrailingEndMarker(i) /\ log[i].pre.state = "ARGUMENT_BUILD") =>
            /\ log[i].out = <<>>
            /\ log[i].post.state = "IDLE"
            /\ log[i].post.pending_chunks = <<>>

\* A trailing end marker processed in ARGUMENT_BUILD
C35_WhileBuilding ==
    \E i \in 1..Len(log) : TrailingEndMarker(i) /\ log[i].pre.state = "ARGUMENT_BUILD"

\* ------------------------------------------------------------------------
\* C34  At-most-once delivery
\* ------------------------------------------------------------------------

\* Some call up to call i has yielded a start chunk or an argument chunk
\* made from the input chunk (a synthetic chunk is a copy of the chunk it
\* is made from, delta apart, and so carries its number)
EmittedFrom(chunk, i) ==
    \E j \in 1..i : \E c \in 1..Len(log[j].out) :
        /\ IsToolCallChunk(log[j].out[c])
        /\ log[j].out[c].n = chunk.n

\* C34: flush replays no original chunk from which a start chunk or an
\* argument chunk has already been emitted.
C34_AtMostOnce ==
    \A i \in 1..Len(log) :
        log[i].op = "flush" =>
            \A k \in 1..Len(log[i].out) : ~EmittedFrom(log[i].out[k], i - 1)

\* ------------------------------------------------------------------------
\* C33  Successive tool calls
\* ------------------------------------------------------------------------

\* The arguments of the two calls: {"x":1} and {"y":2}
ArgumentsA == <<"{","\"","x","\"",":","1","}">>
ArgumentsB == <<"{","\"","y","\"",":","2","}">>

\* functions.a:1{"x":1}<|tool_call_end|>functions.b:2{"y":2}<|tool_call_end|>
CallsText ==
    <<"f","u","n","c","t","i","o","n","s",".","a",":","1">> \o ArgumentsA \o CallEnd
    \o <<"f","u","n","c","t","i","o","n","s",".","b",":","2">> \o ArgumentsB \o CallEnd

\* Where the text may be cut: inside and after the header of each call,
\* inside and after its arguments, and between the two calls (37).
CallsCuts == {10, 13, 17, 20, 37, 47, 50, 57}

\* process_chunk on the next piece of the text of the two calls
ProcessCalls ==
    /\ Len(log) < MaxCalls
    /\ \E end \in CallsCuts \cup {Len(CallsText)} :
          /\ end > pos
          /\ LET chunk == UpstreamChunk(Len(log) + 1,
                                        SubSeq(CallsText, pos + 1, end),
                                        None, None)
             IN Apply("text", chunk, ProcessChunk(Transformer, chunk))
          /\ pos' = end
    /\ UNCHANGED <<scenario, relay>>

NextCalls == ProcessCalls \/ Flush

SpecCalls == InitTurn /\ [][NextCalls]_vars

\* The whole text of the two calls has been fed, a flush coming last if at all
CallsFed ==
    /\ pos = Len(CallsText)
    /\ \A i \in 1..(Len(log) - 1) : log[i].op = "text"

\* The tool calls of the final response of an aggregator that is fed
\* everything the transformer has yielded
FoldedToolCalls ==
    LET response == GetFinalResponse(AggregatorProcessAll(NewAggregator,
                                                          Yielded(1, Len(log)), 1))
    IN IF response.none THEN <<>> ELSE response.choices[1].message.tool_calls

\* The entry is a tool call with this name and these arguments
IsCall(entry, name, arguments) ==
    /\ "function" \in DOMAIN entry
    /\ entry.function.name = name
    /\ entry.function.arguments = arguments

\* C33: once the two calls have been fed, the final response holds two
\* tool-call entries, a with its arguments and b with its arguments.
C33_CallsStaySeparate ==
    CallsFed =>
        LET calls == FoldedToolCalls
        IN /\ Len(calls) = 2
           /\ IsCall(calls[1], <<"a">>, ArgumentsA)
           /\ IsCall(calls[2], <<"b">>, ArgumentsB)

\* The two calls fed as two chunks, one call each, are folded into one entry
\* with the two names and the two arguments concatenated
C33_Concatenated ==
    /\ Len(log) = 2
    /\ log[1].chunk.delta.reasoning_content = SubSeq(CallsText, 1, 37)
    /\ CallsFed
    /\ LET calls == FoldedToolCalls
       IN /\ Len(calls) = 1
          /\ IsCall(calls[1], <<"a","b">>, ArgumentsA \o ArgumentsB)

\* ------------------------------------------------------------------------
\* The relay on the bytes of the upstream stream (stream_generator with the
\* transformer enabled), one step per network read
\* ------------------------------------------------------------------------

DataPrefix == <<"d","a","t","a",":"," ">>
DoneText == <<"[","D","O","N","E","]">>

\* The chunks of the events of the upstream stream: ordinary reasoning text,
\* then a tool call with empty arguments
EventChunks ==
    << UpstreamChunk(1, <<"o","k">>, None, None),
       UpstreamChunk(2, <<"f","u","n","c","t","i","o","n","s",".","a",":","1","{","}">>,
                     None, None) >>

\* The JSON text the upstream server sends for a chunk
Payload(chunk) ==
    <<"{","\"","i","d","\"",":">> \o <<<<"1">>, <<"2">>>>[chunk.n]
    \o <<",","\"","c","h","o","i","c","e","s","\"",":","[","{","\"","d","e","l","t","a","\"",":","{","\"","r","o","l","e","\"",":","n","u","l","l",",","\"","c","o","n","t","e","n","t","\"",":","n","u","l","l",",","\"","r","e","a","s","o","n","i","n","g","_","c","o","n","t","e","n","t","\"",":","\"">>
    \o chunk.delta.reasoning_content
    \o <<"\"",",","\"","t","o","o","l","_","c","a","l","l","s","\"",":","n","u","l","l","}",",","\"","f","i","n","i","s","h","_","r","e","a","s","o","n","\"",":","n","u","l","l","}","]","}">>

\* One event: a "data: " line and a blank line
Event(payload) == DataPrefix \o payload \o <<"\n","\n">>

\* The events of the stream, the sentinel last
StreamEvents ==
    << Event(Payload(EventChunks[1])), Event(Payload(EventChunks[2])), Event(DoneText) >>

\* The bytes of the stream
StreamBytes == Concat(StreamEvents)

\* The number of bytes up to the end of the k-th event
EventEnd(k) == Len(Concat(SubSeq(StreamEvents, 1, k)))

\* Where a network read may end: inside the "data: " of an event, inside
\* its JSON text, after the JSON text, between the two line ends, after the
\* event, and inside the sentinel.
ReadCuts ==
    { 3, 40, EventEnd(1) - 2, EventEnd(1) - 1, EventEnd(1),
      EventEnd(1) + 3, EventEnd(1) + 100, EventEnd(2), EventEnd(2) + 9 }

\* text.split(sep)
RECURSIVE Split(_, _)
Split(text, sep) ==
    IF Find(text, sep) = 0 THEN <<text>>
    ELSE <<SubSeq(text, 1, Find(text, sep) - 1)>>
         \o Split(From(text, Find(text, sep) + Len(sep)), sep)

\* json.loads(json_data) for a text it accepts: the chunk the text was
\* written from, or some other JSON value
JsonLoads(json_data) ==
    IF \E k \in 1..Len(EventChunks) : Payload(EventChunks[k]) = json_data
    THEN EventChunks[CHOOSE k \in 1..Len(EventChunks) : Payload(EventChunks[k]) = json_data]
    ELSE InvalidChunk(0, "not_object")

\* (line + "\n") as it is written when json.loads rejects the line
FallbackText(line) ==
    [kind |-> "line", from |-> "relay", chunk |-> NoChunk, text |-> line \o <<"\n">>]

\* What the relay holds between two reads
RelayState ==
    [t |-> Transformer, aggregator |-> aggregator, downstream |-> downstream,
     error_log |-> error_log, done_sent |-> done_sent]

\* The loops over transformer.process_chunk and transformer.flush_pending
\* on r: every chunk of the result p is aggregated and written, then the
\* items of tail.
Delivered(r, p, from, tail) ==
    [r EXCEPT !.t = p.t,
              !.aggregator = AggregatorProcessAll(@, p.out, 1),
              !.downstream = @ \o Written(p.out, from) \o tail]

\* The body of the loop over the lines of a read
RelayLine(r, line) ==
    IF ~StartsAt(line, 1, DataPrefix) THEN r
    ELSE IF From(line, Len(DataPrefix) + 1) = DoneText
    THEN [Delivered(r, FlushPending(r.t), "flush", <<Sentinel>>) EXCEPT !.done_sent = TRUE]
    ELSE IF ~JsonLoadsOk(From(line, Len(DataPrefix) + 1))
    THEN [r EXCEPT !.error_log = Append(@, Line("malformed", NoChunk)),
                   !.downstream = Append(@, FallbackText(line))]
    ELSE Delivered(r, ProcessChunk(r.t, JsonLoads(From(line, Len(DataPrefix) + 1))),
                   "process", <<>>)

\* The loop over the lines of a read, from the k-th line on
RECURSIVE RelayLines(_, _, _)
RelayLines(r, lines, k) ==
    IF k > Len(lines) THEN r
    ELSE RelayLines(RelayLine(r, lines[k]), lines, k + 1)

\* One network read: chunk_str.strip().split("\n") and the loop over it
RelayRead(r, chunk_str) == RelayLines(r, Split(Strip(chunk_str), <<"\n">>), 1)

\* The end of the upstream stream: a flush if no sentinel was written
RelayEndOf(r) ==
    IF ~r.done_sent THEN Delivered(r, FlushPending(r.t), "flush", <<>>) ELSE r

\* The relay takes the state r
RelayBecomes(r) ==
    /\ state' = r.t.state
    /\ builder' = r.t.builder
    /\ pending_chunks' = r.t.pending_chunks
    /\ aggregator' = r.aggregator
    /\ downstream' = r.downstream
    /\ error_log' = r.error_log
    /\ done_sent' = r.done_sent

\* A network read that carries the next bytes of the stream
ReadBytes ==
    /\ ~ended
    /\ received < MaxLines
    /\ \E end \in ReadCuts \cup {Len(StreamBytes)} :
          /\ end > pos
          /\ RelayBecomes(RelayRead(RelayState, SubSeq(StreamBytes, pos + 1, end)))
          /\ upstream' = Append(upstream,
                                [lines |-> <<>>, split |-> FALSE,
                                 bytes |-> SubSeq(StreamBytes, pos + 1, end)])
          /\ pos' = end
    /\ received' = received + 1
    /\ UNCHANGED <<scenario, objects, whole, log, ended, enabled, http, pair, turn, failure>>

\* The upstream stream ends once all its bytes have been read
BytesEnd ==
    /\ ~ended
    /\ pos = Len(StreamBytes)
    /\ RelayBecomes(RelayEndOf(RelayState))
    /\ ended' = TRUE
    /\ UNCHANGED <<scenario, objects, whole, pos, log, received, enabled, http, pair,
                   turn, upstream, failure>>

NextBytes == ReadBytes \/ BytesEnd

SpecBytes == InitTurn /\ [][NextBytes]_vars

\* ------------------------------------------------------------------------
\* C31  Read boundaries
\* ------------------------------------------------------------------------

\* The relay after the stream in which each event arrives in its own read
RECURSIVE OwnReads(_, _)
OwnReads(r, k) ==
    IF k > Len(StreamEvents) THEN RelayEndOf(r)
    ELSE OwnReads(RelayRead(r, StreamEvents[k]), k + 1)

\* What is written downstream when each event arrives in its own read
OwnReadsDownstream ==
    OwnReads([t |-> NewTransformer, aggregator |-> NewAggregator, downstream |-> <<>>,
              error_log |-> <<>>, done_sent |-> FALSE], 1).downstream

\* C31: however the bytes of the stream are split into reads, what has been
\* written downstream when the stream has ended is what is written when
\* each event arrives in its own read.
C31_ReadBoundaryIndependence ==
    ended => downstream = OwnReadsDownstream

\* Every read ends at the end of a line
WholeLineReads ==
    \A i \in 1..Len(upstream) : upstream[i].bytes[Len(upstream[i].bytes)] = "\n"

\* The same for the streams whose reads all end at the end of a line, two
\* events in one read included
C31_WholeLineReads ==
    (ended /\ WholeLineReads) => downstream = OwnReadsDownstream

\* A stream that has ended and in which one read held two events
C31_TwoEventsInOneRead ==
    /\ ended
    /\ WholeLineReads
    /\ \E i \in 1..Len(upstream) : Len(upstream[i].bytes) > EventEnd(2) - 3

\* ------------------------------------------------------------------------
\* stream_generator from one suspension point to the next (the transformer
\* enabled, one line per network read).  The generator waits for upstream
\* bytes (pc "reading") or stands at a yield (pc "yielded"); it has run to
\* its end (pc "finished") or has been closed (pc "closed").
\* g = [t, aggregator, downstream, done_sent, ended, pc, rest, after, tail,
\* then]: rest is what the loop over the transformer's generator has still
\* to take, after is the transformer once that generator is exhausted, tail
\* is what is written after the loop, and then says what follows: the next
\* read ("read"), done_sent = True ("done") or the end of the generator
\* ("end").
\* ------------------------------------------------------------------------

\* The generator as it waits for the first read
NewGenerator ==
    [pc |-> "reading", is_streaming |-> TRUE, outcome |-> "ok", status_code |-> 200,
     rest |-> <<>>, after |-> NewTransformer, tail |-> <<>>, then |-> "read"]

\* The generator and the objects it works on
GeneratorState ==
    [t |-> Transformer, aggregator |-> aggregator, downstream |-> downstream,
     done_sent |-> done_sent, ended |-> ended, pc |-> http.pc, rest |-> http.rest,
     after |-> http.after, tail |-> http.tail, then |-> http.then]

\* The code between two suspension points: the next chunk of the
\* transformer's generator is aggregated and yielded; once the generator is
\* exhausted the next item of tail is yielded; after that done_sent is
\* set, or the generator ends, and otherwise it waits for the next read.
RunToYield(g) ==
    IF g.rest # <<>>
    THEN [g EXCEPT !.aggregator = AggregatorProcessChunk(@, Head(g.rest).chunk),
                   !.downstream = Append(@, Head(g.rest)),
                   !.rest = Tail(@),
                   !.pc = "yielded"]
    ELSE IF g.tail # <<>>
    THEN [g EXCEPT !.t = g.after,
                   !.downstream = Append(@, Head(g.tail)),
                   !.tail = Tail(@),
                   !.pc = "yielded"]
    ELSE IF g.then = "end"
    THEN [g EXCEPT !.t = g.after, !.ended = TRUE, !.pc = "finished"]
    ELSE [g EXCEPT !.t = g.after,
                   !.done_sent = (@ \/ g.then = "done"),
                   !.then = "read",
                   !.pc = "reading"]

\* The generator and its objects take the state g
GeneratorBecomes(g) ==
    /\ state' = g.t.state
    /\ builder' = g.t.builder
    /\ pending_chunks' = g.t.pending_chunks
    /\ aggregator' = g.aggregator
    /\ downstream' = g.downstream
    /\ done_sent' = g.done_sent
    /\ ended' = g.ended
    /\ http' = [http EXCEPT !.pc = g.pc, !.rest = g.rest, !.after = g.after,
                            !.tail = g.tail, !.then = g.then]

\* The loop the generator enters on a result r of the transformer
Entering(r, from, tail, then) ==
    [GeneratorState EXCEPT !.rest = Written(r.out, from), !.after = r.t,
                           !.tail = tail, !.then = then]

\* A read arrives: a "data: <json>" line with the next piece of the text
ReadText ==
    /\ http.pc = "reading"
    /\ received < MaxLines
    /\ \E end \in Scenarios[scenario].cuts \cup {Len(Scenarios[scenario].text)} :
          /\ end > pos
          /\ LET chunk == UpstreamChunk(received + 1,
                                        SubSeq(Scenarios[scenario].text, pos + 1, end),
                                        None, None)
             IN /\ GeneratorBecomes(RunToYield(Entering(ProcessChunk(Transformer, chunk),
                                                         "process", <<>>, "read")))
                /\ upstream' = Append(upstream, OneLine("chunk", chunk))
          /\ pos' = end
    /\ received' = received + 1
    /\ UNCHANGED <<scenario, objects, whole, log, enabled, pair, turn, error_log, failure>>

\* A read arrives: the line "data: [DONE]", or a "data: " line that
\* json.loads rejects
ReadOther ==
    /\ http.pc = "reading"
    /\ received < MaxLines
    /\ \/ /\ GeneratorBecomes(RunToYield(Entering(FlushPending(Transformer), "flush",
                                                  <<Sentinel>>, "done")))
          /\ upstream' = Append(upstream, OneLine("done", NoChunk))
          /\ UNCHANGED error_log
       \/ /\ GeneratorBecomes(RunToYield([GeneratorState EXCEPT
                                             !.tail = <<FallbackLine(received + 1)>>]))
          /\ upstream' = Append(upstream,
                                OneLine("malformed", InvalidChunk(received + 1, "not_object")))
          /\ error_log' = Append(error_log,
                                 Line("malformed", InvalidChunk(received + 1, "not_object")))
    /\ received' = received + 1
    /\ UNCHANGED <<scenario, objects, whole, pos, log, enabled, pair, turn, failure>>

\* The upstream stream ends: the flush if no sentinel was written, and the
\* end of the generator
ReadEnd ==
    /\ http.pc = "reading"
    /\ IF ~done_sent
       THEN GeneratorBecomes(RunToYield(Entering(FlushPending(Transformer), "flush",
                                                 <<>>, "end")))
       ELSE GeneratorBecomes(RunToYield([GeneratorState EXCEPT !.then = "end"]))
    /\ UNCHANGED <<scenario, objects, whole, pos, log, received, enabled, pair, turn,
                   error_log, upstream, failure>>

\* The client takes what was yielded and the generator runs on
Resume ==
    /\ http.pc = "yielded"
    /\ GeneratorBecomes(RunToYield(GeneratorState))
    /\ UNCHANGED <<scenario, objects, whole, pos, log, received, enabled, pair, turn,
                   error_log, upstream, failure>>

\* Mutant: the generator takes the chunks it has still to yield before it
\* ends.
Close_Draining ==
    /\ http.pc \in {"reading", "yielded"}
    /\ GeneratorBecomes([GeneratorState EXCEPT
                            !.downstream = @ \o http.rest \o http.tail,
                            !.pc = "closed", !.ended = TRUE])
    /\ failure' = "cancelled"
    /\ UNCHANGED <<scenario, objects, whole, pos, log, received, enabled, pair, turn,
                   error_log, upstream>>

\* The client disconnects and the generator is closed where it stands: the
\* exception raised at the suspension point leaves the two "async with"
\* blocks, which close the upstream response and the client.
Close ==
    /\ http.pc \in {"reading", "yielded"}
    /\ http' = [http EXCEPT !.pc = "closed"]
    /\ ended' = TRUE
    /\ failure' = "cancelled"
    /\ UNCHANGED <<state, builder, pending_chunks, objects, whole, scenario, pos, log,
                   downstream, done_sent, received, enabled, pair, turn, aggregator,
                   error_log, upstream>>

NextCancel == ReadText \/ ReadOther \/ ReadEnd \/ Resume \/ Close

InitCancel == Start(TRUE, NewGenerator) /\ scenario = 1

SpecCancel == InitCancel /\ [][NextCancel]_vars

\* ------------------------------------------------------------------------
\* C32  Cancellation
\* ------------------------------------------------------------------------

C32_ClosedWhileReading ==
    /\ failure = "cancelled"
    /\ http.rest = <<>>
    /\ http.tail = <<>>
    /\ downstream # <<>>
    /\ pending_chunks # <<>>

====
